---- MODULE Spec2Model ----
(***************************************************************************)
(* Model of cx, the output-compression proxy: the shared size-bounding     *)
(* primitives (compress/truncate.rs), the per-tool compressors and their   *)
(* dispatch (compress/*.rs), the process result (runner.rs), the footer    *)
(* (tools/mod.rs), the tools (tools/*.rs) and the configuration            *)
(* (config.rs).                                                            *)
(*                                                                         *)
(* A text is a sequence of characters.  A character is a one-character     *)
(* string; the characters that UTF-8 encodes in more than one byte are     *)
(* written by their code point ("U+2026") and Width gives every            *)
(* character's number of bytes, because str::len and the slices            *)
(* line[..n] of the source count bytes.  A call that panics yields Panic.  *)
(***************************************************************************)
EXTENDS Integers, Sequences, FiniteSets, TLC

VARIABLES pc, fn, raw, sub, comp, max_lines, max_line_len, res,
          cfg, tool, argv, proc, output, disk, cli, root

vars == <<pc, fn, raw, sub, comp, max_lines, max_line_len, res,
          cfg, tool, argv, proc, output, disk, cli, root>>

(***************************************************************************)
(* Bounds of the model.                                                    *)
(***************************************************************************)
MaxLen == 5
MaxCap == 2

(***************************************************************************)
(* Characters and texts.                                                   *)
(***************************************************************************)
NL == "\n"
CR == "\r"
TAB == "\t"
EACUTE == "U+00E9"
ELLIPSIS == "U+2026"
TIMES == "U+00D7"
BOXH == "U+2500"
BOXV == "U+2502"
BOXVR == "U+251C"
BOXUR == "U+2514"
BACKTICK == "U+0060"
REPLACEMENT == "U+FFFD"
\* A byte that no UTF-8 text holds.
INVALID_BYTE == "0xFF"

Width(c) ==
  CASE c = EACUTE -> 2
    [] c = TIMES -> 2
    [] c = ELLIPSIS -> 3
    [] c \in {BOXH, BOXV, BOXVR, BOXUR} -> 3
    [] c = REPLACEMENT -> 3
    [] OTHER -> 1

NoHint == "(none)"

Chars(s) == [i \in 1..Len(s) |-> SubSeq(s, i, i)]

\* A loop "for e in s" with body Step, started in state st: the elements are
\* visited in order, the first half of a range before the second half (the
\* state a range starts in is computed before the range is entered).
RECURSIVE FoldRange(_, _, _, _, _)
FoldRange(Step(_, _), s, lo, hi, st) ==
  IF st # st \/ lo > hi THEN st
  ELSE IF lo = hi THEN Step(st, s[lo])
  ELSE FoldRange(Step, s, (lo + hi) \div 2 + 1, hi,
                 FoldRange(Step, s, lo, (lo + hi) \div 2, st))

Fold(Step(_, _), s, st) == FoldRange(Step, s, 1, Len(s), st)

\* str::len: the number of bytes.
ByteLen(s) == Fold(LAMBDA n, c : n + Width(c), s, 0)

Ok(t) == [panic |-> FALSE, text |-> t]
Panic == [panic |-> TRUE, text |-> <<>>]

\* A result followed by more text; a panic stays a panic.
Then(r, t) == IF r.panic THEN Panic ELSE Ok(r.text \o t)

Take(s, n) == SubSeq(s, 1, IF n < Len(s) THEN n ELSE Len(s))
Skip(s, n) == SubSeq(s, n + 1, Len(s))

\* [T]::join(sep) and, for a one-character sep, Vec<String>::join.
Join(ls, sep) ==
  Fold(LAMBDA st, l : [first |-> FALSE,
                       text |-> IF st.first THEN l ELSE st.text \o sep \o l],
       ls, [first |-> TRUE, text |-> <<>>]).text

Concat(ls) == Fold(LAMBDA t, l : t \o l, ls, <<>>)

StripCR(l) ==
  IF l # <<>> /\ l[Len(l)] = CR THEN SubSeq(l, 1, Len(l) - 1) ELSE l

\* str::lines: a line ends at "\n" and then also loses one "\r" before it;
\* the rest after the last "\n" is a line unless it is empty.
LinesStep(st, c) ==
  IF c = NL
  THEN [out |-> Append(st.out, StripCR(st.cur)), cur |-> <<>>]
  ELSE [out |-> st.out, cur |-> Append(st.cur, c)]

LinesEnd(st) == IF st.cur = <<>> THEN st.out ELSE Append(st.out, st.cur)

Lines(s) == LinesEnd(Fold(LinesStep, s, [out |-> <<>>, cur |-> <<>>]))

DigitChar(d) == SubSeq("0123456789", d + 1, d + 1)

\* Display of an unsigned integer ({total}, {count}, ...).
RECURSIVE Digits(_)
Digits(n) ==
  IF n < 10 THEN <<DigitChar(n)>>
  ELSE Digits(n \div 10) \o <<DigitChar(n % 10)>>

\* str::is_char_boundary(n) as the number of characters before byte n, or -1
\* when byte n is past the end or inside a character.
CutStep(n, st, c) ==
  IF st.used >= n THEN st
  ELSE [used |-> st.used + Width(c), k |-> st.k + 1]

CutEnd(st, n) == IF st.used = n THEN st.k ELSE -1

CutAt(line, n) ==
  CutEnd(Fold(LAMBDA st, c : CutStep(n, st, c), line, [used |-> 0, k |-> 0]), n)

\* &line[..n], which panics when n is not a character boundary.
SliceAt(line, k) == IF k < 0 THEN Panic ELSE Ok(SubSeq(line, 1, k))

SliceTo(line, n) == SliceAt(line, CutAt(line, n))

(***************************************************************************)
(* The str methods the compressors use.                                    *)
(***************************************************************************)
Whitespace == {" ", TAB, CR, NL}

StartsWith(s, p) == Len(s) >= Len(p) /\ SubSeq(s, 1, Len(p)) = p
EndsWith(s, p) == Len(s) >= Len(p) /\ SubSeq(s, Len(s) - Len(p) + 1, Len(s)) = p
Contains(s, p) ==
  \E i \in 1..(Len(s) - Len(p) + 1) : SubSeq(s, i, i + Len(p) - 1) = p

\* str::trim_start, str::trim_end, str::trim
TrimStart(s) ==
  LET keep == {i \in 1..Len(s) : s[i] \notin Whitespace}
  IN IF keep = {} THEN <<>>
     ELSE SubSeq(s, CHOOSE i \in keep : \A j \in keep : i <= j, Len(s))

TrimEnd(s) ==
  LET keep == {i \in 1..Len(s) : s[i] \notin Whitespace}
  IN IF keep = {} THEN <<>>
     ELSE SubSeq(s, 1, CHOOSE i \in keep : \A j \in keep : j <= i)

Trim(s) == TrimEnd(TrimStart(s))

\* str::trim_start_matches(p): every leading repetition of p is removed.
RECURSIVE TrimStartMatches(_, _)
TrimStartMatches(s, p) ==
  IF p # <<>> /\ StartsWith(s, p)
  THEN TrimStartMatches(SubSeq(s, Len(p) + 1, Len(s)), p)
  ELSE s

\* Iterator::find on the lines: the first line satisfying P, or none.
FirstIndex(ls, P(_)) ==
  LET hits == {i \in 1..Len(ls) : P(ls[i])}
  IN IF hits = {} THEN 0 ELSE CHOOSE i \in hits : \A j \in hits : i <= j

\* Iterator::filter
Filter(ls, P(_)) ==
  Fold(LAMBDA acc, l : IF P(l) THEN Append(acc, l) ELSE acc, ls, <<>>)


(***************************************************************************)
(* compress/truncate.rs                                                    *)
(***************************************************************************)
MAX_LINES == 150
MAX_LINE_LEN == 300

EllipsisMarker == <<" ", ELLIPSIS>>

\* CapLine with the cut forgotten: the marker is appended to the whole line.
CapLine_NoCut(line, maxLineLen) ==
  IF ByteLen(line) > maxLineLen THEN Ok(line \o EllipsisMarker) ELSE Ok(line)

\* CapLine with ">=" for ">": a line of exactly the cap is cut as well.
CapLine_Ge(line, maxLineLen) ==
  IF ByteLen(line) >= maxLineLen
  THEN Then(SliceTo(line, maxLineLen), EllipsisMarker)
  ELSE Ok(line)

\* The body of the loop of truncate_with: one line, capped.
CapLine(line, maxLineLen) ==
  IF ByteLen(line) > maxLineLen
  THEN Then(SliceTo(line, maxLineLen), EllipsisMarker)
  ELSE Ok(line)

OverflowMarker(total, maxLines) ==
  <<NL>> \o Chars("[cx] ") \o <<ELLIPSIS>> \o Chars(" ") \o Digits(total)
    \o Chars(" lines total, showing first ") \o Digits(maxLines)

\* The end of truncate_with: the marker after the capped lines, and the join.
TruncateOut(capped, total, maxLines) ==
  IF \E i \in 1..Len(capped) : capped[i].panic
  THEN Panic
  ELSE Ok(Join([i \in 1..Len(capped) |-> capped[i].text]
                 \o (IF total > maxLines
                     THEN <<OverflowMarker(total, maxLines)>> ELSE <<>>),
               <<NL>>))

\* The loop of truncate_with over lines.iter().take(max_lines).
TruncateLines(lines, maxLines, maxLineLen) ==
  TruncateOut([i \in 1..Len(Take(lines, maxLines)) |-> CapLine(lines[i], maxLineLen)],
              Len(lines), maxLines)

truncate_with(text, maxLines, maxLineLen) ==
  TruncateLines(Lines(text), maxLines, maxLineLen)

truncate(text) == truncate_with(text, MAX_LINES, MAX_LINE_LEN)

Annotated(line, count) ==
  IF count > 1
  THEN line \o Chars("  (") \o <<TIMES>> \o Digits(count) \o Chars(")")
  ELSE line

\* DedupStep with the reset of the count forgotten.
DedupStep_NoReset(st, line) ==
  IF line = st.current
  THEN [st EXCEPT !.count = st.count + 1]
  ELSE [current |-> line, count |-> st.count,
        out |-> Append(st.out, Annotated(st.current, st.count))]

\* The body of the loop of dedup_lines over lines.iter().skip(1).
DedupStep(st, line) ==
  IF line = st.current
  THEN [st EXCEPT !.count = st.count + 1]
  ELSE [current |-> line, count |-> 1,
        out |-> Append(st.out, Annotated(st.current, st.count))]

\* The flush of the last run after the loop of dedup_lines.
DedupEnd(st) == Append(st.out, Annotated(st.current, st.count))

DedupRuns(lines) ==
  IF lines = <<>> THEN Ok(<<>>)
  ELSE truncate(Join(DedupEnd(Fold(DedupStep, Skip(lines, 1),
                                   [current |-> lines[1], count |-> 1,
                                    out |-> <<>>])),
                     <<NL>>))

dedup_lines(text) == DedupRuns(Lines(text))

(***************************************************************************)
(* compress/generic.rs                                                     *)
(***************************************************************************)
GenericCompressor_compress(text, hint) == truncate(text)

(***************************************************************************)
(* compress/git.rs                                                         *)
(***************************************************************************)
\* The value no model of an algorithm stands behind yet: the subcommands in
\* GitDeferred, CargoDeferred and PythonDeferred are dispatched to their own
\* algorithms by the source, and the specifications draw no such hint.
Deferred == [panic |-> FALSE, text |-> <<"(deferred)">>]

\* The body of the section loop of compress_status.
StatusStep(st, line) ==
  IF StartsWith(line, Chars("Changes to be committed"))
  THEN [st EXCEPT !.section = "Staged"]
  ELSE IF StartsWith(line, Chars("Changes not staged"))
  THEN [st EXCEPT !.section = "Unstaged"]
  ELSE IF StartsWith(line, Chars("Untracked files"))
  THEN [st EXCEPT !.section = "Untracked"]
  ELSE IF StartsWith(Trim(line), <<"(">>) \/ line = <<>>
  THEN st
  ELSE IF StartsWith(line, <<TAB>>) \/ StartsWith(line, <<" ", " ">>)
  THEN CASE st.section = "Staged" ->
              [st EXCEPT !.staged = Append(st.staged, Trim(line))]
         [] st.section = "Unstaged" ->
              [st EXCEPT !.unstaged = Append(st.unstaged, Trim(line))]
         [] st.section = "Untracked" ->
              [st EXCEPT !.untracked = Append(st.untracked, Trim(line))]
         [] OTHER -> st
  ELSE st

StatusScan(text) ==
  Fold(StatusStep, Lines(text),
       [section |-> "None", staged |-> <<>>, unstaged |-> <<>>,
        untracked |-> <<>>])

IsOnBranch(l) == StartsWith(l, Chars("On branch"))
IsYourBranch(l) == StartsWith(l, Chars("Your branch"))

StatusBranch(text) ==
  LET ls == Lines(text)
      i == FirstIndex(ls, IsOnBranch)
  IN IF i = 0 THEN Chars("(detached)")
     ELSE TrimStartMatches(ls[i], Chars("On branch "))

StatusAheadBehind(text) ==
  LET ls == Lines(text)
      i == FirstIndex(ls, IsYourBranch)
  IN IF i = 0 THEN <<>> ELSE ls[i]

\* StatusSection with the header line counted as a file.
StatusSection_CountsHeader(label, files) ==
  IF files = <<>> THEN <<>>
  ELSE <<"[">> \o Chars(label) \o <<" ">> \o Digits(Len(files) + 1)
         \o Chars("] ") \o Join(files, <<",", " ">>) \o <<NL>>

StatusSection(label, files) ==
  IF files = <<>> THEN <<>>
  ELSE <<"[">> \o Chars(label) \o <<" ">> \o Digits(Len(files)) \o Chars("] ")
         \o Join(files, <<",", " ">>) \o <<NL>>

compress_status(text) ==
  LET branch == StatusBranch(text)
      ahead_behind == StatusAheadBehind(text)
      st == StatusScan(text)
  IN Ok(Chars("[branch] ") \o branch
        \o (IF ahead_behind # <<>>
               /\ ~Contains(ahead_behind, Chars("up to date"))
            THEN Chars(" | ") \o Trim(ahead_behind) ELSE <<>>)
        \o <<NL>>
        \o StatusSection("staged", st.staged)
        \o StatusSection("modified", st.unstaged)
        \o StatusSection("untracked", st.untracked)
        \o (IF st.staged = <<>> /\ st.unstaged = <<>> /\ st.untracked = <<>>
            THEN Chars("[clean]") \o <<NL>> ELSE <<>>))

\* The display of one line of compress_blame.
BlameLine(line) ==
  IF ByteLen(line) > 120
  THEN LET s == SliceTo(line, 120)
       IN IF s.panic THEN Panic ELSE Ok(s.text \o EllipsisMarker \o <<NL>>)
  ELSE Ok(line \o <<NL>>)

compress_blame(text) ==
  LET lines == Lines(text)
      total == Len(lines)
      shown == Take(lines, 80)
      disp == [i \in 1..Len(shown) |-> BlameLine(shown[i])]
  IN IF total = 0 THEN Ok(Chars("[blame] empty"))
     ELSE IF \E i \in 1..Len(shown) : disp[i].panic THEN Panic
     ELSE Ok(Chars("[blame: ") \o Digits(total) \o Chars(" lines]") \o <<NL>>
             \o Concat([i \in 1..Len(shown) |-> disp[i].text])
             \o (IF total > 80
                 THEN <<" ", " ", ELLIPSIS>> \o Chars(" +") \o Digits(total - 80)
                        \o Chars(" more lines") \o <<NL>>
                 ELSE <<>>))

\* The loop "for x in xs { out.push_str(&format!("  {x}\n")) }" of the listings.
Indented(ls) == Concat([i \in 1..Len(ls) |-> <<" ", " ">> \o ls[i] \o <<NL>>])

\* The tail "  ... +N more" of a listing of count entries cut at limit.
MoreTail(count, limit) ==
  IF count > limit
  THEN <<" ", " ", ELLIPSIS>> \o Chars(" +") \o Digits(count - limit)
         \o Chars(" more") \o <<NL>>
  ELSE <<>>

\* DiffIsStat with the length taken in characters.
DiffIsStat_Chars(line) ==
  /\ Contains(line, <<"|">>)
  /\ Contains(line, <<"+">>) \/ Contains(line, <<"-">>)
  /\ Len(line) < 120

\* The test of compress_diff for a line of the --stat block.
DiffIsStat(line) ==
  /\ Contains(line, <<"|">>)
  /\ Contains(line, <<"+">>) \/ Contains(line, <<"-">>)
  /\ ByteLen(line) < 120

\* line.split(' ').next_back(): what follows the last space, or the line.
LastPiece(line) ==
  LET sp == {i \in 1..Len(line) : line[i] = " "}
  IN IF sp = {} THEN line
     ELSE SubSeq(line, (CHOOSE i \in sp : \A j \in sp : j <= i) + 1, Len(line))

\* format!("  {f}: +{adds} -{dels}") pushed when a file is open.
DiffFlush(st) ==
  IF st.current_file.some
  THEN [st EXCEPT !.diff_files =
          Append(@, <<" ", " ">> \o st.current_file.value \o Chars(": +")
                      \o Digits(st.adds) \o Chars(" -") \o Digits(st.dels))]
  ELSE st

\* The body of the loop of compress_diff.
DiffStep(st, line) ==
  IF DiffIsStat(line)
  THEN [st EXCEPT !.stat_lines = Append(@, line)]
  ELSE IF StartsWith(line, Chars("diff --git"))
  THEN [DiffFlush(st) EXCEPT
          !.current_file =
             [some |-> TRUE,
              value |-> TrimStartMatches(LastPiece(line), Chars("b/"))],
          !.adds = 0, !.dels = 0]
  ELSE IF StartsWith(line, <<"+">>) /\ ~StartsWith(line, Chars("+++"))
  THEN [st EXCEPT !.adds = @ + 1]
  ELSE IF StartsWith(line, <<"-">>) /\ ~StartsWith(line, Chars("---"))
  THEN [st EXCEPT !.dels = @ + 1]
  ELSE st

\* The loop of compress_diff and the flush of the last file after it.
DiffScan(text) ==
  DiffFlush(Fold(DiffStep, Lines(text),
                 [stat_lines |-> <<>>, diff_files |-> <<>>,
                  current_file |-> [some |-> FALSE, value |-> <<>>],
                  adds |-> 0, dels |-> 0]))

\* The output of compress_diff from the lists the loop has built.
DiffOut(st) ==
  Ok(Chars("[diff]") \o <<NL>>
     \o (IF st.stat_lines # <<>>
         THEN Concat([i \in 1..Len(st.stat_lines) |->
                        <<" ", " ">> \o Trim(st.stat_lines[i]) \o <<NL>>])
         ELSE IF st.diff_files # <<>>
         THEN Concat([i \in 1..Len(st.diff_files) |->
                        st.diff_files[i] \o <<NL>>])
         ELSE Chars("  (no changes)") \o <<NL>>))

compress_diff(text) == DiffOut(DiffScan(text))

IsTag(l) == Trim(l) # <<>>

TagOut(tags) ==
  IF tags = <<>> THEN Ok(Chars("[tags] none"))
  ELSE Ok(Chars("[tags: ") \o Digits(Len(tags)) \o <<"]", NL>>
          \o Indented(Take(tags, 30)) \o MoreTail(Len(tags), 30))

compress_tag(text) == TagOut(Filter(Lines(text), IsTag))

IsStashEntry(l) == StartsWith(l, Chars("stash@{"))

StashOut(lines) ==
  IF \E i \in 1..Len(lines) : IsStashEntry(lines[i])
  THEN Ok(Chars("[stash: ") \o Digits(Len(lines)) \o Chars(" entries]")
          \o <<NL>> \o Indented(Take(lines, 20)) \o MoreTail(Len(lines), 20))
  ELSE Ok(Chars("[stash] ")
          \o (IF lines = <<>> THEN Chars("ok") ELSE Trim(lines[1])))

compress_stash(subc, text) ==
  IF Trim(text) = <<>> THEN Ok(Chars("[stash] ok")) ELSE StashOut(Lines(text))

IsFetchRemote(l) == Contains(l, Chars("(fetch)"))

RemoteOut(text, remotes) ==
  IF remotes = <<>>
  THEN IF Trim(text) = <<>> THEN Ok(Chars("[remotes] none")) ELSE truncate(text)
  ELSE Ok(Chars("[remotes: ") \o Digits(Len(remotes)) \o <<"]", NL>>
          \o Indented(remotes))

compress_remote(text) == RemoteOut(text, Filter(Lines(text), IsFetchRemote))

IsRemoved(l) ==
  StartsWith(l, Chars("Removing")) \/ StartsWith(l, Chars("Would remove"))

CleanOut(text, removed) ==
  IF removed = <<>>
  THEN IF Trim(text) = <<>> THEN Ok(Chars("[git clean] nothing to clean"))
       ELSE truncate(text)
  ELSE Ok(Chars("[git clean] ") \o Digits(Len(removed)) \o Chars(" items")
          \o <<NL>> \o Indented(Take(removed, 30))
          \o MoreTail(Len(removed), 30))

compress_clean(text) == CleanOut(text, Filter(Lines(text), IsRemoved))

IsTransferLine(l) ==
  /\ Trim(l) # <<>>
  /\ ~StartsWith(Trim(l), Chars("Enumerating"))
  /\ ~StartsWith(Trim(l), Chars("Counting"))
  /\ ~StartsWith(Trim(l), Chars("Compressing"))
  /\ ~StartsWith(Trim(l), Chars("Writing"))
  /\ ~StartsWith(Trim(l), Chars("Total"))
  /\ ~StartsWith(Trim(l), Chars("Delta"))
  /\ ~StartsWith(Trim(l), Chars("remote:"))
  /\ ~Contains(Trim(l), Chars("100%"))

GitLabel(subc) == Chars("[git ") \o Chars(subc) \o <<"]">>

TransferOut(subc, meaningful) ==
  IF meaningful = <<>>
  THEN Ok(GitLabel(subc) \o Chars(" ok"))
  ELSE Ok(GitLabel(subc) \o <<" ">> \o Join(meaningful, Chars(" | ")))

compress_transfer(subc, text) ==
  TransferOut(subc, Filter(Lines(text), IsTransferLine))

IsConflict(l) ==
  Contains(l, Chars("CONFLICT")) \/ Contains(l, Chars("conflict"))

IsMergeLine(l) ==
  /\ Trim(l) # <<>>
  /\ ~StartsWith(Trim(l), Chars("Auto-merging"))
  /\ ~StartsWith(Trim(l), Chars("Applying:"))

\* MergeOut with the listing of the conflicts capped as the other listings.
MergeOut_Capped(subc, conflicts, meaningful) ==
  IF conflicts # <<>>
  THEN Ok(GitLabel(subc) \o Chars(" CONFLICTS (")
            \o Digits(Len(conflicts)) \o <<")", NL>>
            \o Concat([i \in 1..Len(Take(conflicts, 2)) |->
                         <<" ", " ">> \o Trim(conflicts[i]) \o <<NL>>]))
  ELSE IF meaningful = <<>>
  THEN Ok(GitLabel(subc) \o Chars(" ok"))
  ELSE Ok(GitLabel(subc) \o <<" ">>
            \o Join(Take(meaningful, 5), Chars(" | ")))

MergeOut(subc, conflicts, meaningful) ==
  IF conflicts # <<>>
  THEN Ok(GitLabel(subc) \o Chars(" CONFLICTS (")
            \o Digits(Len(conflicts)) \o <<")", NL>>
            \o Concat([i \in 1..Len(conflicts) |->
                         <<" ", " ">> \o Trim(conflicts[i]) \o <<NL>>]))
  ELSE IF meaningful = <<>>
  THEN Ok(GitLabel(subc) \o Chars(" ok"))
  ELSE Ok(GitLabel(subc) \o <<" ">>
            \o Join(Take(meaningful, 5), Chars(" | ")))

compress_merge_like(subc, text) ==
  IF Trim(text) = <<>>
  THEN Ok(GitLabel(subc) \o Chars(" ok"))
  ELSE MergeOut(subc, Filter(Lines(text), IsConflict),
                Filter(Lines(text), IsMergeLine))

GitDeferred ==
  {"add", "commit", "reset", "restore", "rm", "mv", "branch",
   "checkout", "switch", "init"}

\* GitCompressor::compress with the default arm of the docker "logs" arm:
\* an unrecognised hint collapses duplicates.
GitCompressor_compress_DefaultDedup(text, hint) ==
  LET s == IF hint = NoHint THEN "" ELSE hint
  IN CASE s = "status" -> compress_status(text)
       [] s = "log" -> truncate(text)
       [] s = "diff" -> compress_diff(text)
       [] s = "tag" -> compress_tag(text)
       [] s = "stash" -> compress_stash(s, text)
       [] s = "remote" -> compress_remote(text)
       [] s = "blame" -> compress_blame(text)
       [] s = "show" -> truncate(text)
       [] s = "clean" -> compress_clean(text)
       [] s \in {"push", "pull", "fetch"} -> compress_transfer(s, text)
       [] s \in {"merge", "rebase", "cherry-pick"} ->
            compress_merge_like(s, text)
       [] s = "clone" -> compress_transfer("clone", text)
       [] s \in GitDeferred -> Deferred
       [] OTHER -> dedup_lines(text)

GitCompressor_compress(text, hint) ==
  LET s == IF hint = NoHint THEN "" ELSE hint
  IN CASE s = "status" -> compress_status(text)
       [] s = "log" -> truncate(text)
       [] s = "diff" -> compress_diff(text)
       [] s = "tag" -> compress_tag(text)
       [] s = "stash" -> compress_stash(s, text)
       [] s = "remote" -> compress_remote(text)
       [] s = "blame" -> compress_blame(text)
       [] s = "show" -> truncate(text)
       [] s = "clean" -> compress_clean(text)
       [] s \in {"push", "pull", "fetch"} -> compress_transfer(s, text)
       [] s \in {"merge", "rebase", "cherry-pick"} ->
            compress_merge_like(s, text)
       [] s = "clone" -> compress_transfer("clone", text)
       [] s \in GitDeferred -> Deferred
       [] OTHER -> truncate(text)

(***************************************************************************)
(* compress/cargo.rs                                                       *)
(***************************************************************************)
IsRunNoise(line) ==
  LET trimmed == Trim(line)
  IN \/ StartsWith(trimmed, Chars("Compiling"))
     \/ StartsWith(trimmed, Chars("Downloading"))
     \/ StartsWith(trimmed, Chars("Fresh"))
     \/ StartsWith(trimmed, Chars("Finished"))
     \/ StartsWith(trimmed, Chars("Running"))

IsRunOutput(line) == ~IsRunNoise(line)

compress_run(text) ==
  LET out == Filter(Lines(text), IsRunOutput)
  IN IF out = <<>> THEN Ok(Chars("[cargo run] ok"))
     ELSE truncate(Join(out, <<NL>>))

IsInstalled(trimmed) ==
  \/ StartsWith(trimmed, Chars("Installing"))
  \/ StartsWith(trimmed, Chars("Installed"))
  \/ StartsWith(trimmed, Chars("Replacing"))

IsFinished(trimmed) == StartsWith(trimmed, Chars("Finished"))

\* The body of the loop of compress_install.
InstallStep(st, line) ==
  IF IsInstalled(Trim(line))
  THEN [st EXCEPT !.installed = [some |-> TRUE, value |-> Trim(line)]]
  ELSE IF IsFinished(Trim(line))
  THEN [st EXCEPT !.summary = [some |-> TRUE, value |-> Trim(line)]]
  ELSE st

\* The output of compress_install from what the loop has kept.
InstallOut(st) ==
  Ok(Chars("[cargo install] ")
     \o (IF st.installed.some THEN st.installed.value ELSE Chars("ok"))
     \o <<NL>>
     \o (IF st.summary.some THEN st.summary.value \o <<NL>> ELSE <<>>))

compress_install(text) ==
  InstallOut(Fold(InstallStep, Lines(text),
                  [installed |-> [some |-> FALSE, value |-> <<>>],
                   summary |-> [some |-> FALSE, value |-> <<>>]]))

IsPublishLine(l) ==
  \/ StartsWith(Trim(l), Chars("Uploading"))
  \/ StartsWith(Trim(l), Chars("Uploaded"))
  \/ StartsWith(Trim(l), Chars("Publishing"))
  \/ StartsWith(Trim(l), Chars("Published"))
  \/ Contains(Trim(l), Chars("error"))
  \/ Contains(Trim(l), Chars("warning"))

PublishOut(text, meaningful) ==
  IF meaningful = <<>> THEN truncate(text)
  ELSE Ok(Chars("[cargo publish]") \o <<NL>>
          \o Concat([i \in 1..Len(meaningful) |->
                       <<" ", " ">> \o Trim(meaningful[i]) \o <<NL>>]))

compress_publish(text) == PublishOut(text, Filter(Lines(text), IsPublishLine))

\* Vec::contains
Has(ls, l) == \E i \in 1..Len(ls) : ls[i] = l

IsTestOpener(line) ==
  StartsWith(line, Chars("---- ")) /\ EndsWith(line, Chars(" ----"))

IsTestSummary(line) ==
  \/ StartsWith(line, Chars("test result:"))
  \/ StartsWith(line, Chars("failures:"))
  \/ Contains(line, Chars("FAILED"))
  \/ StartsWith(line, Chars("running "))

\* The three ifs of the body of the loop of compress_test, in order.
TestOpen(st, line) ==
  IF IsTestOpener(line) THEN [st EXCEPT !.in_failure = TRUE] ELSE st

TestBlock(st, line) ==
  IF st.in_failure
  THEN [out |-> Append(st.out, line),
        in_failure |-> IF line = <<>> THEN FALSE ELSE st.in_failure]
  ELSE st

\* TestKeep with the test of out.contains(line) forgotten.
TestKeep_NoDedup(st, line) ==
  IF IsTestSummary(line) THEN [st EXCEPT !.out = Append(@, line)] ELSE st

TestKeep(st, line) ==
  IF IsTestSummary(line) /\ ~Has(st.out, line)
  THEN [st EXCEPT !.out = Append(@, line)]
  ELSE st

TestStep(st, line) == TestKeep(TestBlock(TestOpen(st, line), line), line)

TestOut(text, out) ==
  IF out = <<>> THEN truncate(text)
  ELSE Ok(Chars("[cargo test]") \o <<NL>> \o Join(out, <<NL>>))

compress_test(text) ==
  TestOut(text, Fold(TestStep, Lines(text),
                     [out |-> <<>>, in_failure |-> FALSE]).out)

IsBuildSummary(line) ==
  \/ Contains(line, Chars("Finished"))
  \/ Contains(line, Chars("could not compile"))
  \/ (Contains(line, Chars("Compiling")) /\ Contains(line, <<"v">>))

\* The body of the loop of compress_build.
BuildStep(st, line) ==
  IF StartsWith(line, Chars("error"))
  THEN [st EXCEPT !.errors = Append(@, line)]
  ELSE IF StartsWith(line, Chars("warning"))
          /\ ~StartsWith(line, Chars("warning: unused"))
  THEN [st EXCEPT !.warnings = Append(@, line)]
  ELSE IF IsBuildSummary(line)
  THEN [st EXCEPT !.summary = Append(@, line)]
  ELSE st

\* The text compress_build makes of the three lists.
BuildText(st) ==
  Concat([i \in 1..Len(st.summary) |-> Trim(st.summary[i]) \o <<NL>>])
    \o (IF st.errors # <<>>
        THEN Chars("[errors: ") \o Digits(Len(st.errors)) \o <<"]", NL>>
               \o Concat([i \in 1..Len(st.errors) |->
                            <<" ", " ">> \o st.errors[i] \o <<NL>>])
        ELSE <<>>)
    \o (IF st.warnings # <<>>
        THEN Chars("[warnings: ") \o Digits(Len(st.warnings)) \o <<"]", NL>>
               \o Concat([i \in 1..Len(Take(st.warnings, 10)) |->
                            <<" ", " ">> \o st.warnings[i] \o <<NL>>])
               \o (IF Len(st.warnings) > 10
                   THEN <<" ", " ", ELLIPSIS>> \o Chars(" +")
                          \o Digits(Len(st.warnings) - 10) \o Chars(" more")
                          \o <<NL>>
                   ELSE <<>>)
        ELSE <<>>)

BuildOut(text, out) == IF out = <<>> THEN truncate(text) ELSE Ok(out)

compress_build(text) ==
  BuildOut(text, BuildText(Fold(BuildStep, Lines(text),
                                [errors |-> <<>>, warnings |-> <<>>,
                                 summary |-> <<>>])))

CargoDeferred ==
  {"clippy", "fmt", "bench", "doc", "add", "remove", "update"}

CargoCompressor_compress(text, hint) ==
  LET s == IF hint = NoHint THEN "" ELSE hint
  IN CASE s \in {"test", "nextest"} -> compress_test(text)
       [] s \in {"build", "check"} -> compress_build(text)
       [] s = "run" -> compress_run(text)
       [] s = "install" -> compress_install(text)
       [] s = "publish" -> compress_publish(text)
       [] s \in CargoDeferred -> Deferred
       [] OTHER -> truncate(text)

(***************************************************************************)
(* compress/python.rs                                                      *)
(***************************************************************************)
IsResolved(trimmed) ==
  StartsWith(trimmed, Chars("Resolved")) \/ StartsWith(trimmed, Chars("Audited"))

IsDepChange(trimmed) ==
  \/ StartsWith(trimmed, <<"+">>)
  \/ StartsWith(trimmed, <<"-">>)
  \/ StartsWith(trimmed, Chars("Updated"))

\* The body of the loop of compress_uv_dep.
UvDepStep(st, line) ==
  LET trimmed == Trim(line)
  IN IF IsResolved(trimmed) THEN [st EXCEPT !.resolved = <<trimmed>>]
     ELSE IF IsDepChange(trimmed)
     THEN [st EXCEPT !.changes = Append(st.changes, trimmed)]
     ELSE st

compress_uv_dep(hint, text) ==
  LET st == Fold(UvDepStep, Lines(text), [resolved |-> <<>>, changes |-> <<>>])
      shown == Take(st.changes, 20)
      out == <<"[">> \o Chars("uv ") \o Chars(hint) \o Chars("] ")
               \o (IF st.resolved # <<>> THEN st.resolved[1] ELSE <<>>)
               \o <<NL>>
               \o Concat([i \in 1..Len(shown) |-> <<" ", " ">> \o shown[i] \o <<NL>>])
               \o (IF Len(st.changes) > 20
                   THEN <<" ", " ", ELLIPSIS>> \o Chars(" +")
                          \o Digits(Len(st.changes) - 20) \o Chars(" more") \o <<NL>>
                   ELSE <<>>)
  IN IF Trim(out) = <<>> THEN truncate(text) ELSE Ok(out)

IsPytestSummary(line) ==
  /\ StartsWith(line, <<"=">>)
  /\ \/ Contains(line, Chars("passed"))
     \/ Contains(line, Chars("failed"))
     \/ Contains(line, Chars("error"))

IsFailuresHeader(line) ==
  Contains(line, Chars("FAILURES")) /\ StartsWith(line, <<"=">>)

IsFailureHeader(line) ==
  StartsWith(line, Chars("___")) /\ EndsWith(line, Chars("___"))

IsShortSummary(line) ==
  StartsWith(line, Chars("FAILED ")) \/ StartsWith(line, Chars("ERROR "))

\* The in_failure branch of the loop of compress_pytest.
PytestDetail(st, line) ==
  [out |-> IF st.failure_lines + 1 <= 20
           THEN Append(st.out, line) ELSE st.out,
   in_failure |-> ~(StartsWith(line, <<"=">>)
                    \/ (line = <<>> /\ st.failure_lines + 1 > 2)),
   failure_lines |-> st.failure_lines + 1]

\* The body of the loop of compress_pytest.
PytestStep(st, line) ==
  IF IsPytestSummary(line)
  THEN [st EXCEPT !.out = Append(@, line)]
  ELSE IF IsFailuresHeader(line)
  THEN [st EXCEPT !.in_failure = TRUE, !.out = Append(@, line)]
  ELSE IF IsFailureHeader(line)
  THEN [out |-> Append(st.out, line), in_failure |-> TRUE,
        failure_lines |-> 0]
  ELSE IF st.in_failure
  THEN PytestDetail(st, line)
  ELSE IF IsShortSummary(line)
  THEN [st EXCEPT !.out = Append(@, line)]
  ELSE st

PytestOut(text, out) ==
  IF out = <<>> THEN truncate(text)
  ELSE Ok(Chars("[pytest]") \o <<NL>> \o Join(out, <<NL>>))

compress_pytest(text) ==
  PytestOut(text, Fold(PytestStep, Lines(text),
                       [out |-> <<>>, in_failure |-> FALSE,
                        failure_lines |-> 0]).out)

PythonDeferred ==
  {"ruff", "mypy", "pip", "install", "uninstall", "list",
   "freeze", "outdated", "sync", "lock"}

PythonCompressor_compress(text, hint) ==
  LET s == IF hint = NoHint THEN "" ELSE hint
  IN CASE s \in {"pytest", "test"} -> compress_pytest(text)
       [] s = "run" -> truncate(text)
       [] s \in {"add", "remove"} -> compress_uv_dep(s, text)
       [] s \in PythonDeferred -> Deferred
       [] OTHER -> truncate(text)

(***************************************************************************)
(* compress/docker.rs                                                      *)
(***************************************************************************)
\* compress_ps and compress_images: the same listing under two labels.
\* DockerListing with the header line counted among the rows.
DockerListing_CountsHeader(text, empty, label) ==
  LET lines == Lines(text)
      rows == Take(Skip(lines, 1), 30)
  IN IF lines = <<>> THEN Ok(Chars(empty))
     ELSE Ok(<<"[">> \o Chars(label) \o Chars(": ")
             \o Digits(Len(lines))
             \o <<"]", NL>>
             \o lines[1] \o <<NL>>
             \o Concat([i \in 1..Len(rows) |-> rows[i] \o <<NL>>])
             \o (IF Len(lines) > 31
                 THEN <<" ", " ", ELLIPSIS>> \o Chars(" +")
                        \o Digits(Len(lines) - 31) \o Chars(" more") \o <<NL>>
                 ELSE <<>>))

DockerListing(text, empty, label) ==
  LET lines == Lines(text)
      rows == Take(Skip(lines, 1), 30)
  IN IF lines = <<>> THEN Ok(Chars(empty))
     ELSE Ok(<<"[">> \o Chars(label) \o Chars(": ")
             \o Digits(IF Len(lines) >= 1 THEN Len(lines) - 1 ELSE 0)
             \o <<"]", NL>>
             \o lines[1] \o <<NL>>
             \o Concat([i \in 1..Len(rows) |-> rows[i] \o <<NL>>])
             \o (IF Len(lines) > 31
                 THEN <<" ", " ", ELLIPSIS>> \o Chars(" +")
                        \o Digits(Len(lines) - 31) \o Chars(" more") \o <<NL>>
                 ELSE <<>>))

compress_ps(text) == DockerListing(text, "[docker ps] no containers", "containers")
compress_images(text) == DockerListing(text, "[docker images] none", "images")

\* DockerCompressor::compress with the "logs" arm left to the default arm.
DockerCompressor_compress_LogsTruncate(text, hint) ==
  LET s == IF hint = NoHint THEN "" ELSE hint
  IN CASE s = "ps" -> compress_ps(text)
       [] s = "images" -> compress_images(text)
       [] OTHER -> truncate(text)

DockerCompressor_compress(text, hint) ==
  LET s == IF hint = NoHint THEN "" ELSE hint
  IN CASE s = "ps" -> compress_ps(text)
       [] s = "images" -> compress_images(text)
       [] s = "logs" -> dedup_lines(text)
       [] OTHER -> truncate(text)


(***************************************************************************)
(* compress/grep.rs                                                        *)
(***************************************************************************)
\* str::find(':'): the position of the first colon, or 0.
FindColon(line) ==
  LET hits == {i \in 1..Len(line) : line[i] = ":"}
  IN IF hits = {} THEN 0 ELSE CHOOSE i \in hits : \A j \in hits : i <= j

\* GrepStep with only the lines that hold a colon counted in the total.
GrepStep_ColonOnly(st, line) ==
  LET colon == FindColon(line)
      file == SubSeq(line, 1, colon - 1)
      rest == SubSeq(line, colon + 1, Len(line))
      n == Len(st.files)
  IN IF colon = 0 THEN st
     ELSE IF n > 0 /\ st.files[n].file = file
     THEN [total |-> st.total + 1,
           files |-> [st.files EXCEPT ![n].matches = Append(@, rest)]]
     ELSE [total |-> st.total + 1,
           files |-> Append(st.files, [file |-> file, matches |-> <<rest>>])]

\* The body of the loop of compress_grep.
GrepStep(st, line) ==
  LET colon == FindColon(line)
      file == SubSeq(line, 1, colon - 1)
      rest == SubSeq(line, colon + 1, Len(line))
      n == Len(st.files)
  IN IF colon = 0 THEN [st EXCEPT !.total = st.total + 1]
     ELSE IF n > 0 /\ st.files[n].file = file
     THEN [total |-> st.total + 1,
           files |-> [st.files EXCEPT ![n].matches = Append(@, rest)]]
     ELSE [total |-> st.total + 1,
           files |-> Append(st.files, [file |-> file, matches |-> <<rest>>])]

\* The display of one match: at most 200 bytes, cut without a marker.
GrepMatch(m) ==
  IF ByteLen(m) > 200
  THEN LET s == SliceTo(m, 200)
       IN IF s.panic THEN Panic ELSE Ok(<<" ", " ">> \o s.text \o <<NL>>)
  ELSE Ok(<<" ", " ">> \o m \o <<NL>>)

GrepGroup(g) ==
  LET shown == Take(g.matches, 10)
      disp == [i \in 1..Len(shown) |-> GrepMatch(shown[i])]
  IN IF \E i \in 1..Len(shown) : disp[i].panic THEN Panic
     ELSE Ok(<<NL, BOXH, BOXH, " ">> \o g.file \o Chars(" (")
             \o Digits(Len(g.matches)) \o Chars(" hits)") \o <<NL>>
             \o Concat([i \in 1..Len(shown) |-> disp[i].text])
             \o (IF Len(g.matches) > 10
                 THEN <<" ", " ", ELLIPSIS>> \o Chars(" +")
                        \o Digits(Len(g.matches) - 10) \o Chars(" more") \o <<NL>>
                 ELSE <<>>))

compress_grep(text) ==
  LET st == Fold(GrepStep, Lines(text), [total |-> 0, files |-> <<>>])
      groups == [i \in 1..Len(st.files) |-> GrepGroup(st.files[i])]
  IN IF Trim(text) = <<>> THEN Ok(Chars("[grep] no matches"))
     ELSE IF \E i \in 1..Len(groups) : groups[i].panic THEN Panic
     ELSE Ok(Chars("[grep] ") \o Digits(st.total) \o Chars(" matches in ")
             \o Digits(Len(st.files)) \o Chars(" files") \o <<NL>>
             \o Concat([i \in 1..Len(groups) |-> groups[i].text]))

GrepCompressor_compress(text, hint) == compress_grep(text)

\* Compressor::compress on the implementation named c.
Compress(c, text, hint) ==
  CASE c = "git" -> GitCompressor_compress(text, hint)
    [] c = "cargo" -> CargoCompressor_compress(text, hint)
    [] c = "python" -> PythonCompressor_compress(text, hint)
    [] c = "docker" -> DockerCompressor_compress(text, hint)
    [] c = "grep" -> GrepCompressor_compress(text, hint)
    [] c = "generic" -> GenericCompressor_compress(text, hint)


(***************************************************************************)
(* config.rs                                                               *)
(***************************************************************************)
DefaultCfg ==
  [max_lines |-> 150, max_line_len |-> 300, show_footer |-> TRUE,
   ls_skip |-> <<"target", "node_modules", ".git", "__pycache__", ".DS_Store",
                 "dist", "build", ".next", ".cache", "coverage", ".venv",
                 "venv">>,
   ls_max_depth |-> 4, ls_max_entries |-> 200]

\* Option<T> of a PartialConfig field, and the outcome of load_file.
None == [some |-> FALSE]
Some(v) == [some |-> TRUE, value |-> v]
OrElse(opt, dflt) == IF opt.some THEN opt.value ELSE dflt

NoPartial ==
  [max_lines |-> None, max_line_len |-> None, show_footer |-> None,
   ls_skip |-> None, ls_max_depth |-> None, ls_max_entries |-> None]

NoFile == [found |-> FALSE, partial |-> NoPartial]
File(partial) == [found |-> TRUE, partial |-> partial]

\* A configuration file on disk: absent, or present with a content that is
\* TOML of a PartialConfig or is not; partial holds what its lines set.
Missing == [exists |-> FALSE, parses |-> FALSE, partial |-> NoPartial]
Unparsable(partial) == [exists |-> TRUE, parses |-> FALSE, partial |-> partial]
Parsed(partial) == [exists |-> TRUE, parses |-> TRUE, partial |-> partial]

NoFiles == [global |-> Missing, project |-> Missing]

\* load_file: read_to_string(path).ok()? and then toml::from_str(..).ok().
load_file(f) == IF f.exists /\ f.parses THEN File(f.partial) ELSE NoFile

merge(base, partial) ==
  [max_lines |-> OrElse(partial.max_lines, base.max_lines),
   max_line_len |-> OrElse(partial.max_line_len, base.max_line_len),
   show_footer |-> OrElse(partial.show_footer, base.show_footer),
   ls_skip |-> OrElse(partial.ls_skip, base.ls_skip),
   ls_max_depth |-> OrElse(partial.ls_max_depth, base.ls_max_depth),
   ls_max_entries |-> OrElse(partial.ls_max_entries, base.ls_max_entries)]

\* Config::load on the contents of the global and the project file.
Overlay(config, file) == IF file.found THEN merge(config, file.partial) ELSE config

\* Config::load with the global file merged after the project file.
Config_load_GlobalLast(global, project) ==
  Overlay(Overlay(DefaultCfg, project), global)

Config_load(global, project) == Overlay(Overlay(DefaultCfg, global), project)

(***************************************************************************)
(* runner.rs and tools/mod.rs                                              *)
(***************************************************************************)
NoProc ==
  [spawned |-> FALSE, stdout |-> <<>>, stderr |-> <<>>, exit_code |-> 0,
   elapsed_ms |-> 0, error |-> <<>>]

NoArgv == [program |-> "", args |-> <<>>]

\* Path::exists is false: nothing is at the path.
NoRoot == [kind |-> "none", entries |-> <<>>, denied |-> FALSE]

\* RunResult::combined with the separator pushed whenever stderr has text.
RunResult_combined_AlwaysNL(r) ==
  IF r.stderr # <<>> THEN r.stdout \o <<NL>> \o r.stderr ELSE r.stdout

RunResult_combined(r) ==
  IF r.stderr # <<>>
  THEN (IF r.stdout # <<>> THEN r.stdout \o <<NL>> ELSE r.stdout) \o r.stderr
  ELSE r.stdout

\* RunResult::success accepting every non-negative exit code.
RunResult_success_NonNegative(r) == r.exit_code >= 0

RunResult_success(r) == r.exit_code = 0

\* String::from_utf8_lossy: the text of the bytes, U+FFFD for an invalid one.
from_utf8_lossy(bytes) ==
  [i \in 1..Len(bytes) |-> IF bytes[i] = INVALID_BYTE THEN REPLACEMENT ELSE bytes[i]]

\* Display of a signed integer ({} of an i32).
DisplayInt(i) == IF i < 0 THEN <<"-">> \o Digits(0 - i) ELSE Digits(i)

footer(label, r) ==
  <<"[">> \o Chars(label) \o Chars("] ")
    \o (IF RunResult_success(r) THEN Chars("ok") ELSE Chars("FAIL"))
    \o Chars(" (") \o Digits(r.elapsed_ms) \o Chars("ms, exit ")
    \o DisplayInt(r.exit_code) \o Chars(")")

(***************************************************************************)
(* tools/git.rs, cargo.rs, python.rs, docker.rs, grep.rs, generic.rs       *)
(***************************************************************************)
Rest(args) == SubSeq(args, 2, Len(args))
AnyArg(args, P(_)) == \E i \in 1..Len(args) : P(args[i])
ArgStartsWith(a, p) == StartsWith(Chars(a), Chars(p))

HasArg(rest, names) == \E i \in 1..Len(rest) : rest[i] \in names
HasArgPrefix(rest, p) == \E i \in 1..Len(rest) : ArgStartsWith(rest[i], p)

\* The defaults GitTool::build_args puts between the subcommand and the rest.
GitTool_defaults(subc, rest) ==
  CASE subc = "log" ->
         (IF ~(HasArgPrefix(rest, "--format") \/ HasArgPrefix(rest, "--pretty"))
          THEN <<"--oneline">> ELSE <<>>)
           \o (IF ~(HasArgPrefix(rest, "-n") \/ HasArgPrefix(rest, "--max-count"))
               THEN <<"-n30">> ELSE <<>>)
    [] subc = "diff" ->
         IF ~HasArg(rest, {"--stat", "--name-only", "--cached"})
         THEN <<"--stat">> ELSE <<>>
    [] subc = "branch" -> IF rest = <<>> THEN <<"-a">> ELSE <<>>
    [] subc = "stash" -> IF rest = <<>> THEN <<"list">> ELSE <<>>
    [] subc = "remote" -> IF rest = <<>> THEN <<"-v">> ELSE <<>>
    [] subc = "tag" ->
         IF ~HasArg(rest, {"-l", "--list"}) /\ rest = <<>> THEN <<"-l">> ELSE <<>>
    [] subc = "clean" -> IF ~HasArg(rest, {"-f", "--force"}) THEN <<"-n">> ELSE <<>>
    [] OTHER -> <<>>

\* GitTool::build_args: the subcommand and the arguments handed to git.
GitTool_build_args(args) ==
  IF args = <<>> THEN [sub |-> "status", args |-> <<"status">>]
  ELSE [sub |-> args[1],
        args |-> <<args[1]>> \o GitTool_defaults(args[1], Rest(args)) \o Rest(args)]

\* The defaults CargoTool::build_args puts between the subcommand and the rest.
CargoTool_defaults(subc, rest) ==
  CASE subc = "fmt" ->
         IF ~HasArg(rest, {"--check"}) /\ rest = <<>> THEN <<"--check">> ELSE <<>>
    [] subc = "clippy" ->
         IF ~HasArgPrefix(rest, "--message-format")
         THEN <<"--message-format=short">> ELSE <<>>
    [] subc = "doc" ->
         IF ~HasArg(rest, {"--no-deps"}) THEN <<"--no-deps">> ELSE <<>>
    [] OTHER -> <<>>

CargoTool_build_args(args) ==
  IF args = <<>> THEN <<"check">>
  ELSE <<args[1]>> \o CargoTool_defaults(args[1], Rest(args)) \o Rest(args)

\* PythonTool::build_command for the subcommand subc followed by rest.
PythonTool_command(subc, rest, args) ==
  CASE subc \in {"pytest", "test"} ->
         [program |-> "pytest",
          args |-> (IF HasArg(rest, {"-v", "--verbose", "-q"})
                    THEN <<>> ELSE <<"-x", "-q">>) \o rest,
          key |-> "pytest"]
    [] subc = "ruff" ->
         [program |-> "ruff",
          args |-> IF rest # <<>> THEN rest ELSE <<"check">>,
          key |-> "ruff"]
    [] subc = "mypy" -> [program |-> "mypy", args |-> rest, key |-> "mypy"]
    [] subc = "pip" ->
         IF rest # <<>>
         THEN [program |-> "uv", args |-> <<"pip">> \o rest,
               key |-> CASE rest[1] \in {"list", "freeze"} -> "list"
                         [] rest[1] \in {"install", "uninstall"} -> "pip"
                         [] rest[1] = "outdated" -> "outdated"
                         [] OTHER -> "pip"]
         ELSE [program |-> "uv", args |-> <<"pip", "list">>, key |-> "list"]
    [] subc \in {"sync", "lock", "add", "remove", "run"} ->
         [program |-> "uv", args |-> <<subc>> \o rest, key |-> subc]
    [] subc \in {"init", "venv"} ->
         [program |-> "uv", args |-> <<subc>> \o rest, key |-> "run"]
    [] OTHER -> [program |-> "uv", args |-> args, key |-> "run"]

\* PythonTool::build_command: the program, its arguments and the compress key.
PythonTool_build_command(args) ==
  IF args = <<>>
  THEN [program |-> "python", args |-> <<"--version">>, key |-> "run"]
  ELSE PythonTool_command(args[1], Rest(args), args)

GrepTool_build_args(pattern, path, use_rg) ==
  IF use_rg
  THEN [program |-> "rg", args |-> <<"--no-heading", "-n", pattern, path>>]
  ELSE [program |-> "grep", args |-> <<"-rn", pattern, path>>]

\* A tool that returns an error without calling runner::exec.
EarlyError(text) ==
  [early |-> text, program |-> "", args |-> <<>>, comp |-> "none",
   hint |-> NoHint]

\* A tool that runs program with args and compresses with c under hint.
Command(program, args, c, hint) ==
  [early |-> <<>>, program |-> program, args |-> args, comp |-> c,
   hint |-> hint]

GitPlan(b) == Command("git", b.args, "git", b.sub)
PythonPlan(b) == Command(b.program, b.args, "python", b.key)
GrepPlan(b) == Command(b.program, b.args, "grep", NoHint)

\* What a tool does before runner::exec: the error it returns without
\* spawning, or the command, the compressor and the hint.
Plan(t, args) ==
  CASE t = "git" -> GitPlan(GitTool_build_args(args))
    [] t = "cargo" ->
         IF args = <<>>
         THEN EarlyError(Chars("[cargo] error: needs a subcommand (build, test, clippy, ")
                           \o <<ELLIPSIS, ")">>)
         ELSE Command("cargo", CargoTool_build_args(args), "cargo", args[1])
    [] t = "python" -> PythonPlan(PythonTool_build_command(args))
    [] t = "docker" ->
         IF args = <<>>
         THEN EarlyError(Chars("[docker] error: needs a subcommand (ps, images, logs, ")
                           \o <<ELLIPSIS, ")">>)
         ELSE Command("docker", args, "docker", args[1])
    [] t = "grep" ->
         GrepPlan(GrepTool_build_args(args[1], args[2], args[3] = "--rg"))
    [] t = "run" ->
         IF args = <<>>
         THEN EarlyError(Chars("[run] error: no command provided"))
         ELSE Command(args[1], Rest(args), "generic", NoHint)

\* ToolOutput with a process that exits with a failure treated as an error of
\* runner::exec.
ToolOutput_ErrorOnFail(t, program, r, compressed) ==
  IF r.spawned /\ RunResult_success(r)
  THEN Then(compressed, footer(t, r))
  ELSE Ok(<<"[">> \o Chars(t) \o Chars("] error: failed to run ") \o <<BACKTICK>>
            \o Chars(program) \o <<BACKTICK>> \o Chars(": ") \o r.error)

\* The String a tool returns for the outcome r of runner::exec.
ToolOutput(t, program, r, compressed) ==
  IF r.spawned
  THEN Then(compressed, footer(t, r))
  ELSE Ok(<<"[">> \o Chars(t) \o Chars("] error: failed to run ") \o <<BACKTICK>>
            \o Chars(program) \o <<BACKTICK>> \o Chars(": ") \o r.error)


(***************************************************************************)
(* tools/fs.rs                                                             *)
(***************************************************************************)
\* What is at a path: nothing, a file, or a directory with its entries by
\* name (denied: read_dir fails on it).
FileNode == [kind |-> "file", entries |-> <<>>, denied |-> FALSE]
DirNode(entries) == [kind |-> "dir", entries |-> entries, denied |-> FALSE]
DeniedDir == [kind |-> "dir", entries |-> <<>>, denied |-> TRUE]

\* The names a directory can hold, in the order of sort_by_key(file_name).
NameOrder == <<"a", "b">>

\* The entries of walk after the sort and the filter on ctx.skip.
Visible(dir, skip) ==
  SelectSeq(NameOrder, LAMBDA n : n \in DOMAIN dir.entries /\ ~Has(skip, n))

EntryLine(prefix, name, is_last, is_dir) ==
  prefix \o (IF is_last THEN <<BOXUR>> ELSE <<BOXVR>>) \o <<BOXH, BOXH, " ">>
    \o Chars(name) \o (IF is_dir THEN <<"/">> ELSE <<>>)

ChildPrefix(prefix, is_last) ==
  prefix \o (IF is_last THEN <<" ">> ELSE <<BOXV>>) \o <<" ", " ", " ">>

RECURSIVE walk(_, _, _, _, _)
RECURSIVE WalkFrom(_, _, _, _, _, _, _)

\* The loop of walk from the i-th visible entry on.
WalkFrom(dir, visible, i, prefix, depth, ctx, st) ==
  IF i > Len(visible) \/ st.count > ctx.max_entries THEN st
  ELSE WalkFrom(dir, visible, i + 1, prefix, depth, ctx,
         IF dir.entries[visible[i]].kind = "dir"
         THEN walk(dir.entries[visible[i]],
                   ChildPrefix(prefix, i = Len(visible)), depth + 1, ctx,
                   [out |-> Append(st.out,
                                   EntryLine(prefix, visible[i],
                                             i = Len(visible), TRUE)),
                    count |-> st.count + 1])
         ELSE [out |-> Append(st.out,
                              EntryLine(prefix, visible[i],
                                        i = Len(visible), FALSE)),
               count |-> st.count + 1])

walk(dir, prefix, depth, ctx, st) ==
  IF depth > ctx.max_depth \/ st.count > ctx.max_entries THEN st
  ELSE IF dir.denied THEN st
  ELSE WalkFrom(dir, Visible(dir, ctx.skip), 1, prefix, depth, ctx, st)

LsTrailer(count, max_entries) ==
  <<ELLIPSIS, " ">> \o Digits(count) \o Chars(" entries total, showing first ")
    \o Digits(max_entries)

LsOut(path, st, max_entries) ==
  Chars("[ls] ") \o Chars(path) \o Chars(" (") \o Digits(st.count)
    \o Chars(" entries)") \o <<NL>>
    \o Join(IF st.count > max_entries
            THEN Append(st.out, LsTrailer(st.count, max_entries))
            ELSE st.out, <<NL>>)

\* FsTool::new takes the three ls fields of the configuration.
WalkCtx(c) ==
  [max_depth |-> c.ls_max_depth, max_entries |-> c.ls_max_entries,
   skip |-> c.ls_skip]

FsTool_walk(node, c) ==
  walk(node, <<>>, 0, WalkCtx(c), [out |-> <<>>, count |-> 0])

FsTool_run(path, node, c) ==
  IF node.kind = "none"
  THEN Chars("[ls] error: ") \o <<BACKTICK>> \o Chars(path) \o <<BACKTICK>>
         \o Chars(" does not exist")
  ELSE IF node.kind = "file"
  THEN Chars("[ls] ") \o Chars(path) \o Chars(" (file)")
  ELSE LsOut(path, FsTool_walk(node, c), c.ls_max_entries)


(***************************************************************************)
(* Inputs.                                                                 *)
(***************************************************************************)
Alphabet == {"a", EACUTE, NL, CR}

RECURSIVE TextsOfLen(_)
TextsOfLen(n) ==
  IF n = 0 THEN {<<>>}
  ELSE {Append(t, c) : t \in TextsOfLen(n - 1), c \in Alphabet}

ShortTexts == UNION {TextsOfLen(n) : n \in 0..MaxLen}

Rep(s, n) == [i \in 1..(n * Len(s)) |-> s[((i - 1) % Len(s)) + 1]]

\* Texts around the default caps: MAX_LINES and MAX_LINES + 1 lines, with
\* and without repeated lines, and lines around MAX_LINE_LEN bytes.
LongTexts ==
  { Rep(<<"a", NL>>, MAX_LINES),
    Rep(<<"a", NL>>, MAX_LINES + 1),
    Rep(<<"a", NL, "b", NL>>, MAX_LINES \div 2),
    Rep(<<"a", NL, "b", NL>>, (MAX_LINES \div 2) + 1),
    Rep(<<"a">>, MAX_LINE_LEN),
    Rep(<<"a">>, MAX_LINE_LEN + 1),
    Rep(<<"a">>, MAX_LINE_LEN - 1) \o <<EACUTE, "a">>,
    Rep(<<"a">>, MAX_LINE_LEN - 2) \o <<EACUTE, "a">>,
    Rep(<<"a">>, MAX_LINE_LEN + 1) \o <<NL>> \o Rep(<<"a">>, MAX_LINE_LEN + 1) }

Caps == 0..MaxCap


(***************************************************************************)
(* The primitives as a state machine: one call on one input.               *)
(***************************************************************************)
Init ==
  /\ pc = "ready"
  /\ fn = "none"
  /\ raw \in ShortTexts \cup LongTexts
  /\ sub = NoHint
  /\ comp = "none"
  /\ max_lines = MAX_LINES
  /\ max_line_len = MAX_LINE_LEN
  /\ res = Ok(<<>>)
  /\ cfg = DefaultCfg
  /\ disk = NoFiles
  /\ tool = "none"
  /\ argv = NoArgv
  /\ proc = NoProc
  /\ output = <<>>
  /\ cli = <<>>
  /\ root = NoRoot

CallTruncateWith ==
  /\ pc = "ready"
  /\ \E l \in Caps, w \in Caps :
       /\ max_lines' = l
       /\ max_line_len' = w
       /\ res' = truncate_with(raw, l, w)
  /\ fn' = "truncate_with"
  /\ pc' = "done"
  /\ UNCHANGED <<raw, sub, comp, cfg, disk, tool, argv, proc, output>>
  /\ UNCHANGED <<cli, root>>

CallTruncate ==
  /\ pc = "ready"
  /\ res' = truncate(raw)
  /\ fn' = "truncate"
  /\ pc' = "done"
  /\ UNCHANGED <<raw, sub, comp, max_lines, max_line_len, cfg, disk, tool, argv,
                 proc, output>>
  /\ UNCHANGED <<cli, root>>

CallDedupLines ==
  /\ pc = "ready"
  /\ res' = dedup_lines(raw)
  /\ fn' = "dedup_lines"
  /\ pc' = "done"
  /\ UNCHANGED <<raw, sub, comp, max_lines, max_line_len, cfg, disk, tool, argv,
                 proc, output>>
  /\ UNCHANGED <<cli, root>>

Next == CallTruncateWith \/ CallTruncate \/ CallDedupLines

Spec == Init /\ [][Next]_vars

(***************************************************************************)
(* The compressors as a state machine: one call of compress on one raw     *)
(* output.  The raw outputs are made of the lines of LineVocab, at most     *)
(* MaxRawLines of them, ended or not by a line terminator, and of the long  *)
(* outputs around the caps.                                                *)
(***************************************************************************)
MaxRawLines == 2

LineVocab ==
  { <<>>,
    Chars("hello"),
    Chars("On branch main"),
    Chars("Changes not staged for commit:"),
    <<TAB>> \o Chars("modified:   a.rs"),
    Chars("Resolved 3 packages in 1ms"),
    Chars(" + requests==2.31.0"),
    Chars("   Compiling cx v0.1.0"),
    Chars("a.rs:1:fn main()") }

RECURSIVE LineSeqs(_)
LineSeqs(n) ==
  IF n = 0 THEN {<<>>}
  ELSE {Append(ls, l) : ls \in LineSeqs(n - 1), l \in LineVocab}

RawOutputs ==
  LET seqs == UNION {LineSeqs(n) : n \in 0..MaxRawLines}
  IN {Join(ls, <<NL>>) : ls \in seqs}
       \cup {Join(ls, <<NL>>) \o <<NL>> : ls \in seqs}

\* Lines whose cut at 120, 200 and 300 bytes falls inside a character.
LongOutputs ==
  LongTexts
    \cup { Rep(<<"a">>, 119) \o <<EACUTE, "a">>,
           Chars("a.rs:") \o Rep(<<"a">>, 199) \o <<EACUTE, "a">>,
           Rep(<<"a", NL>>, 32),
           Rep(<<"a", NL>>, 81) }

Compressors == {"git", "cargo", "python", "docker", "grep", "generic"}

Hints ==
  {NoHint, "", "bogus", "Status", "status", "blame", "run", "add", "ps",
   "logs"}

\* The hints a specification may hand to compressor c.
HintsFor(c) ==
  CASE c = "git" -> Hints \ GitDeferred
    [] c = "cargo" -> Hints \ CargoDeferred
    [] c = "python" -> Hints \ PythonDeferred
    [] OTHER -> Hints

InitCompress ==
  /\ pc = "ready"
  /\ fn = "none"
  /\ raw \in RawOutputs \cup LongOutputs
  /\ sub = NoHint
  /\ comp = "none"
  /\ max_lines = MAX_LINES
  /\ max_line_len = MAX_LINE_LEN
  /\ res = Ok(<<>>)
  /\ cfg = DefaultCfg
  /\ disk = NoFiles
  /\ tool = "none"
  /\ argv = NoArgv
  /\ proc = NoProc
  /\ output = <<>>
  /\ cli = <<>>
  /\ root = NoRoot

CallCompress ==
  /\ pc = "ready"
  /\ \E c \in Compressors :
       \E h \in HintsFor(c) :
         /\ comp' = c
         /\ sub' = h
         /\ res' = Compress(c, raw, h)
  /\ fn' = "compress"
  /\ pc' = "done"
  /\ UNCHANGED <<raw, max_lines, max_line_len, cfg, disk, tool, argv, proc,
                 output>>
  /\ UNCHANGED <<cli, root>>

NextCompress == CallCompress

SpecCompress == InitCompress /\ [][NextCompress]_vars

(***************************************************************************)
(* The subcommand algorithms as a state machine: a command has run, comp   *)
(* and sub name the compressor and the hint its tool hands over, and raw   *)
(* is an output of that command: at most MaxFamilyLines lines of the       *)
(* command's vocabulary, each ended by a line terminator, or one of the    *)
(* listings longer than the limits.                                        *)
(***************************************************************************)
MaxFamilyLines == 3

RECURSIVE SeqsOfLen(_, _)
SeqsOfLen(V, n) ==
  IF n = 0 THEN {<<>>}
  ELSE {Append(ls, l) : ls \in SeqsOfLen(V, n - 1), l \in V}

Terminated(ls) == Concat([i \in 1..Len(ls) |-> ls[i] \o <<NL>>])

OutputsOver(V) ==
  {Terminated(ls) : ls \in UNION {SeqsOfLen(V, n) : n \in 0..MaxFamilyLines}}

GrepVocab == {Chars("a.rs:1:x"), Chars("b.rs:2:y"), Chars("a.rs:3:z"), Chars("Binary")}

\* Twelve hits in one file, and matches longer than 200 bytes: of ASCII, with
\* a two-byte character that ends at byte 200, and with one that straddles it.
GrepExamples ==
  {Rep(Chars("a.rs:1:x") \o <<NL>>, 12),
   Chars("Binary") \o <<NL>> \o Rep(Chars("a.rs:1:x") \o <<NL>>, 11),
   Chars("a.rs:1:") \o Rep(<<"x">>, 250) \o <<NL>>,
   Chars("a.rs:1:") \o Rep(<<"x">>, 196) \o <<EACUTE>> \o Chars("xxx") \o <<NL>>,
   Chars("a.rs:1:") \o Rep(<<"x">>, 197) \o <<EACUTE>> \o Chars("xxx") \o <<NL>>}

GrepOutputs == OutputsOver(GrepVocab) \cup GrepExamples

StatusPreambles ==
  { <<>>,
    Chars("On branch main") \o <<NL>>
      \o Chars("Your branch is ahead of 'origin/main' by 1 commit.") \o <<NL>>,
    Chars("On branch dev") \o <<NL>>
      \o Chars("Your branch is up to date with 'origin/dev'.") \o <<NL>> }

StatusVocab ==
  { Chars("Changes to be committed:"),
    Chars("Changes not staged for commit:"),
    Chars("Untracked files:"),
    Chars("  (use git add to update)"),
    <<TAB>> \o Chars("modified:   a.rs"),
    Chars("  b.rs"),
    <<>>,
    <<" ", " ">> }

StatusOutputs == {p \o b : p \in StatusPreambles, b \in OutputsOver(StatusVocab)}

DiffVocab ==
  { Chars("diff --git a/x.rs b/x.rs"),
    Chars("diff --git a/y.rs b/y.rs"),
    Chars("+++ b/x.rs"),
    Chars("+new"),
    Chars("-old"),
    Chars(" ctx"),
    Chars("+let m = a | b;"),
    Chars(" x.rs | 2 +-") }

\* A single-file diff adding two lines and removing one, and a line of a
\* --stat block of 119 characters in 120 bytes.
DiffExamples ==
  { Terminated(<<Chars("diff --git a/src/main.rs b/src/main.rs"),
                 Chars("--- a/src/main.rs"),
                 Chars("+++ b/src/main.rs"),
                 Chars("@@ -1,3 +1,4 @@"),
                 Chars("+use std::io;"),
                 Chars(" fn main() {"),
                 Chars("-    old();"),
                 Chars("+    new();"),
                 Chars(" }")>>),
    Terminated(<<<<" ", EACUTE>> \o Rep(<<"a">>, 111) \o Chars(" | 1 +")>>) }

DiffOutputs == OutputsOver(DiffVocab) \cup DiffExamples

ListingVocab ==
  { Chars("v1.0"),
    Chars("stash@{0}: WIP on main: 1a2b3c4 wip"),
    Chars("origin") \o <<TAB>> \o Chars("git@host:r.git (fetch)"),
    Chars("origin") \o <<TAB>> \o Chars("git@host:r.git (push)"),
    Chars("Removing a.o"),
    Chars("Would remove b.o"),
    <<>> }

\* Listings of 21, 31 and 81 entries: one more than each limit.
LongListings ==
  {Rep(l \o <<NL>>, n) : l \in ListingVocab \ {<<>>}, n \in {21, 31, 81}}

ListingOutputs == OutputsOver(ListingVocab) \cup LongListings

LogVocab == {Chars("ready"), Chars("GET /"), <<>>}

LogOutputs ==
  OutputsOver(LogVocab)
    \cup {Rep(Chars("GET /") \o <<NL>>, n) : n \in {31, 32, 33}}

CargoVocab ==
  { Chars("  Installing cx v0.1.0"),
    Chars("    Finished release [optimized] target(s) in 1s"),
    Chars("   Uploading cx v0.1.0"),
    Chars("error: could not find cx in registry"),
    Chars("hello"),
    <<>> }

CargoOutputs == OutputsOver(CargoVocab)

ListingHints == {"tag", "stash", "remote", "blame", "clean"}

SubCalls ==
  {[c |-> "grep", h |-> NoHint], [c |-> "git", h |-> "status"],
   [c |-> "git", h |-> "diff"]}
    \cup {[c |-> "git", h |-> h] : h \in ListingHints}
    \cup {[c |-> "docker", h |-> h] : h \in {"logs", "ps", "images"}}
    \cup {[c |-> "cargo", h |-> h] : h \in {"install", "publish"}}

\* The outputs the command behind a call can print.
OutputsOf(call) ==
  CASE call.c = "grep" -> GrepOutputs
    [] call.c = "git" /\ call.h = "status" -> StatusOutputs
    [] call.c = "git" /\ call.h = "diff" -> DiffOutputs
    [] call.c = "git" -> ListingOutputs
    [] call.c = "docker" -> LogOutputs
    [] call.c = "cargo" -> CargoOutputs

InitSubcommand ==
  /\ pc = "ready"
  /\ fn = "none"
  /\ \E call \in SubCalls :
       /\ comp = call.c
       /\ sub = call.h
       /\ raw \in OutputsOf(call)
  /\ max_lines = MAX_LINES
  /\ max_line_len = MAX_LINE_LEN
  /\ res = Ok(<<>>)
  /\ cfg = DefaultCfg
  /\ disk = NoFiles
  /\ tool = "none"
  /\ argv = NoArgv
  /\ proc = NoProc
  /\ output = <<>>
  /\ cli = <<>>
  /\ root = NoRoot

CallSubcommand ==
  /\ pc = "ready"
  /\ res' = Compress(comp, raw, sub)
  /\ fn' = "compress"
  /\ pc' = "done"
  /\ UNCHANGED <<raw, sub, comp, max_lines, max_line_len, cfg, disk, tool, argv,
                 proc, output>>
  /\ UNCHANGED <<cli, root>>

NextSubcommand == CallSubcommand

SpecSubcommand == InitSubcommand /\ [][NextSubcommand]_vars

(***************************************************************************)
(* A run of cx as a state machine: main loads the configuration, builds    *)
(* the tool of the command line and prints what Tool::run returns.         *)
(***************************************************************************)
GlobalFiles ==
  {Missing, Parsed([NoPartial EXCEPT !.max_lines = Some(2)]),
   Parsed([NoPartial EXCEPT !.show_footer = Some(FALSE), !.max_line_len = Some(3)])}

ProjectFiles ==
  {Missing, Parsed(NoPartial),
   Unparsable([NoPartial EXCEPT !.max_lines = Some(7)]),
   Parsed([NoPartial EXCEPT !.max_lines = Some(1), !.ls_max_depth = Some(2)])}

Tools == {"git", "cargo", "python", "docker", "grep", "run"}

\* The command lines: the arguments after the name of the tool (for grep the
\* pattern, the path and the choice of ripgrep).
ArgLists(t) ==
  CASE t = "git" ->
         {<<>>, <<"status">>, <<"log">>, <<"log", "-n5">>, <<"blame", "a.rs">>,
          <<"bogus">>}
    [] t = "cargo" -> {<<>>, <<"run">>, <<"bogus", "-v">>}
    [] t = "python" ->
         {<<>>, <<"run", "x.py">>, <<"add", "requests">>, <<"venv">>, <<"bogus">>}
    [] t = "docker" -> {<<>>, <<"ps">>, <<"logs", "c1">>, <<"bogus">>}
    [] t = "grep" -> {<<"fn", ".", "">>, <<"fn", "src", "--rg">>}
    [] t = "run" -> {<<>>, <<"echo", "hi">>, <<"ls">>}

Stdouts ==
  { <<>>, Chars("hello"), Chars("hello") \o <<NL>>,
    <<"a", NL, "b", NL, "c", NL>>,
    Rep(<<"a">>, MAX_LINE_LEN - 1) \o <<EACUTE, "a">>,
    <<"h", "i", INVALID_BYTE, NL>> }
Stderrs == { <<>>, Chars("warn"), Chars("warning: x") \o <<NL>> }
ExitCodes == {-1, 0, 1, 101}
ElapsedMs == {0, 12}

\* What runner::exec returns: a RunResult, or the error of a failed spawn.
ExecOutcomes ==
  { [spawned |-> TRUE, stdout |-> from_utf8_lossy(o),
     stderr |-> from_utf8_lossy(e), exit_code |-> x,
     elapsed_ms |-> ms, error |-> <<>>] :
      o \in Stdouts, e \in Stderrs, x \in ExitCodes, ms \in ElapsedMs }
    \cup { [NoProc EXCEPT !.error = Chars("No such file or directory (os error 2)")] }

InitTool ==
  /\ pc = "start"
  /\ fn = "none"
  /\ raw = <<>>
  /\ sub = NoHint
  /\ comp = "none"
  /\ max_lines = MAX_LINES
  /\ max_line_len = MAX_LINE_LEN
  /\ res = Ok(<<>>)
  /\ cfg = DefaultCfg
  /\ disk \in [global : GlobalFiles, project : ProjectFiles]
  /\ tool = "none"
  /\ argv = NoArgv
  /\ proc = NoProc
  /\ output = <<>>
  /\ cli = <<>>
  /\ root = NoRoot

LoadConfig ==
  /\ pc = "start"
  /\ cfg' = Config_load(load_file(disk.global), load_file(disk.project))
  /\ pc' = "loaded"
  /\ UNCHANGED <<fn, raw, sub, comp, max_lines, max_line_len, res, tool, argv,
                 proc, output, disk>>
  /\ UNCHANGED <<cli, root>>

\* The end of Tool::run: the text, what the compressor made of it, the output.
ToolReturn(t, plan, r, text, compressed) ==
  /\ argv' = [program |-> plan.program, args |-> plan.args]
  /\ proc' = r
  /\ raw' = text
  /\ comp' = plan.comp
  /\ sub' = plan.hint
  /\ res' = compressed
  /\ output' = ToolOutput(t, plan.program, r, compressed).text
  /\ pc' = IF r.spawned /\ compressed.panic THEN "panicked" ELSE "exited"

\* Tool::run from the match on the result of runner::exec.
ToolExec(t, plan, r, text) ==
  ToolReturn(t, plan, r, text,
             IF r.spawned THEN Compress(plan.comp, text, plan.hint) ELSE Ok(<<>>))

\* Tool::run of tool t: the early error, or exec, combined, compress, footer.
ToolRun(t, plan, r) ==
  IF plan.early # <<>>
  THEN /\ output' = plan.early
       /\ pc' = "exited"
       /\ UNCHANGED <<raw, sub, comp, res, argv, proc>>
  ELSE ToolExec(t, plan, r, IF r.spawned THEN RunResult_combined(r) ELSE <<>>)

\* main: the tool made of the command line, and its run.
RunToolOn(t, lists) ==
  /\ pc = "loaded"
  /\ \E args \in lists, r \in ExecOutcomes :
       ToolRun(t, Plan(t, args), r) /\ cli' = args
  /\ tool' = t
  /\ fn' = "run"
  /\ UNCHANGED <<max_lines, max_line_len, cfg, disk, root>>

RunTool(t) == RunToolOn(t, ArgLists(t))

RunGit == RunTool("git")
RunCargo == RunTool("cargo")
RunPython == RunTool("python")
RunDocker == RunTool("docker")
RunGrep == RunTool("grep")
RunGeneric == RunTool("run")

NextTool ==
  \/ LoadConfig
  \/ RunGit \/ RunCargo \/ RunPython \/ RunDocker \/ RunGrep \/ RunGeneric

SpecTool == InitTool /\ [][NextTool]_vars

(***************************************************************************)
(* Properties of the size-bounding primitives.                             *)
(***************************************************************************)
Truncated == pc = "done" /\ fn \in {"truncate", "truncate_with"}
Returned == ~res.panic
RawLines == Lines(raw)
OutLines == Lines(res.text)
HasMarker == Len(RawLines) > max_lines

\* The lines of the output that are not the overflow marker.
LineCapHolds ==
  \A i \in 1..Len(OutLines) :
    \/ HasMarker /\ i = Len(OutLines)
    \/ /\ ByteLen(OutLines[i]) <= max_line_len + ByteLen(EllipsisMarker)
       /\ Len(OutLines[i]) <= max_line_len + Len(EllipsisMarker)

EndsWithTerminator(t) == t # <<>> /\ t[Len(t)] = NL
HasCRLF(t) == \E i \in 1..(Len(t) - 1) : t[i] = CR /\ t[i + 1] = NL

RefLine(line, maxLineLen) ==
  IF Len(line) <= maxLineLen THEN line
  ELSE SubSeq(line, 1, maxLineLen) \o EllipsisMarker

TruncateRef(text, maxLines, maxLineLen) ==
  LET lines == Lines(text)
      n == Len(lines)
      k == IF n < maxLines THEN n ELSE maxLines
  IN Join([i \in 1..k |-> RefLine(lines[i], maxLineLen)]
            \o (IF n > maxLines THEN <<OverflowMarker(n, maxLines)>> ELSE <<>>),
          <<NL>>)

\* C3: truncate_with returns the first min(n, L) lines in order, each
\* unchanged when it has at most W characters and otherwise cut to its first W
\* characters followed by the ellipsis marker, followed by the summary if and
\* only if n > L.
C3_EqualsReference ==
  Truncated => res = Ok(TruncateRef(raw, max_lines, max_line_len))

\* One line per maximal run of equal consecutive lines, in order.
RunLines(lines) ==
  LET n == Len(lines)
      starts == {i \in 1..n : i = 1 \/ lines[i] # lines[i - 1]}
      rank == [i \in 1..n |-> Cardinality({j \in starts : j <= i})]
      ends == {i \in 1..n : i = n \/ lines[i] # lines[i + 1]}
      startOf == [k \in 1..Cardinality(starts) |->
                    CHOOSE i \in starts : rank[i] = k]
      endOf == [k \in 1..Cardinality(starts) |->
                  CHOOSE i \in ends : rank[i] = k]
  IN [k \in 1..Cardinality(starts) |->
        LET len == endOf[k] - startOf[k] + 1
        IN IF len > 1
           THEN lines[startOf[k]] \o Chars("  (") \o <<TIMES>> \o Digits(len)
                  \o Chars(")")
           ELSE lines[startOf[k]]]

Deduped == pc = "done" /\ fn = "dedup_lines"

\* C4 as claimed: the output of dedup_lines has, for every maximal run of k
\* equal consecutive lines of the input, exactly one line, annotated with
\* "  (xk)" when k > 1 and unmodified when k = 1.
C4_DedupAsClaimed ==
  Deduped => res = Ok(Join(RunLines(RawLines), <<NL>>))

\* C4 amended: the output of dedup_lines is truncate applied to the text that
\* has, for every maximal run of k equal consecutive lines of the input,
\* exactly one line, annotated with "  (xk)" when k > 1 and unmodified when
\* k = 1; equal lines that are not consecutive are in different runs.
C4_DedupCorrect ==
  Deduped => res = truncate(Join(RunLines(RawLines), <<NL>>))

\* C4 witness: an input with a run of two or more lines, and with two equal
\* lines separated by a different one, was deduplicated.
C4_Witness ==
  /\ Deduped /\ Returned
  /\ \E i \in 1..(Len(RawLines) - 1) : RawLines[i] = RawLines[i + 1]
  /\ \E i \in 1..(Len(RawLines) - 2) :
       RawLines[i] = RawLines[i + 2] /\ RawLines[i] # RawLines[i + 1]

(***************************************************************************)
(* Properties of the compressors.                                          *)
(***************************************************************************)
Compressed == pc = "done" /\ fn = "compress"
HintOf == IF sub = NoHint THEN "" ELSE sub

GitRecognised ==
  {"status", "diff", "log", "push", "pull", "fetch", "add", "commit", "reset",
   "restore", "rm", "mv", "branch", "tag", "stash", "merge", "rebase",
   "cherry-pick", "checkout", "switch", "remote", "blame", "show", "clean",
   "clone", "init"}
CargoRecognised ==
  {"test", "nextest", "build", "check", "clippy", "fmt", "run", "bench", "doc",
   "add", "remove", "update", "install", "publish"}
PythonRecognised ==
  {"pytest", "test", "ruff", "mypy", "pip", "install", "uninstall", "list",
   "freeze", "outdated", "sync", "run", "lock", "add", "remove"}
DockerRecognised == {"ps", "images", "logs"}

RecognisedBy(c) ==
  CASE c = "git" -> GitRecognised
    [] c = "cargo" -> CargoRecognised
    [] c = "python" -> PythonRecognised
    [] c = "docker" -> DockerRecognised
    [] OTHER -> {}

\* The input has a line that the algorithm behind (c, h) recognises.
AnyLine(text, P(_)) == \E i \in 1..Len(Lines(text)) : P(Lines(text)[i])

IsStatusMarker(l) ==
  \/ StartsWith(l, Chars("On branch")) \/ StartsWith(l, Chars("Your branch"))
  \/ StartsWith(l, Chars("Changes to be committed"))
  \/ StartsWith(l, Chars("Changes not staged"))
  \/ StartsWith(l, Chars("Untracked files"))
  \/ StartsWith(l, <<TAB>>) \/ StartsWith(l, <<" ", " ">>)
IsUvDepMarker(l) == IsResolved(Trim(l)) \/ IsDepChange(Trim(l))
HasColon(l) == \E i \in 1..Len(l) : l[i] = ":"

HasMarkers(c, h, text) ==
  CASE c = "git" /\ h = "status" -> AnyLine(text, IsStatusMarker)
    [] c = "cargo" /\ h = "run" -> AnyLine(text, IsRunNoise)
    [] c = "python" /\ h \in {"add", "remove"} -> AnyLine(text, IsUvDepMarker)
    [] c = "docker" /\ h = "logs" ->
         \E i \in 1..(Len(Lines(text)) - 1) : Lines(text)[i] = Lines(text)[i + 1]
    [] c = "grep" -> AnyLine(text, HasColon)
    [] OTHER -> FALSE

KeepsEveryLine(kept, r) ==
  /\ ~kept.panic /\ ~r.panic
  /\ \A i \in 1..Len(Lines(kept.text)) :
       \E j \in 1..Len(Lines(r.text)) : Lines(r.text)[j] = Lines(kept.text)[i]

\* C5: a per-tool compressor called with a recognised subcommand on an input
\* that has text but none of the markers of that subcommand returns
\* truncate(raw), or a text with every line of truncate(raw), and never the
\* empty string.
C5_FallbackSafety ==
  (/\ Compressed
   /\ comp = "grep" \/ HintOf \in RecognisedBy(comp)
   /\ Trim(raw) # <<>>
   /\ ~HasMarkers(comp, HintOf, raw))
  => (/\ res = truncate(raw) \/ KeepsEveryLine(truncate(raw), res)
      /\ ~res.panic => res.text # <<>>)

\* C6: every call of compress returns a string; none panics.
C6_Total == Compressed => ~res.panic

\* C10: the git, cargo, python and docker compressors return truncate(raw)
\* when the hint is absent or not one of their subcommands, and the generic
\* compressor returns truncate(raw) whatever the hint.
C10_DefaultDispatch ==
  Compressed =>
    (/\ (comp \in {"git", "cargo", "python", "docker"}
           /\ HintOf \notin RecognisedBy(comp))
          => res = truncate_with(raw, MAX_LINES, MAX_LINE_LEN)
     /\ comp = "generic" => res = truncate_with(raw, MAX_LINES, MAX_LINE_LEN))

\* C10 witness: the git compressor was handed a hint that is not one of its
\* subcommands and an output with repeated lines, more of them than the cap.
C10_Witness ==
  /\ Compressed /\ comp = "git" /\ sub = "bogus" /\ ~res.panic
  /\ Len(Lines(raw)) > MAX_LINES
  /\ Lines(raw)[1] = Lines(raw)[2]
  /\ Len(Lines(res.text)) = MAX_LINES + 2

(***************************************************************************)
(* Properties of a run.                                                    *)
(***************************************************************************)
Spawned == fn = "run" /\ pc \in {"exited", "panicked"} /\ proc.spawned
Exited == fn = "run" /\ pc = "exited" /\ proc.spawned

\* C7: when the loaded configuration sets max_lines = L and max_line_len = W,
\* the shared truncation applied to a tool's output caps it at L lines and W
\* characters per line; 150 and 300 apply only when the configuration does
\* not override them.
C7_ConfiguredCaps ==
  (/\ Exited
   /\ (comp = "generic" \/ (HintOf \notin RecognisedBy(comp) /\ comp # "grep")))
  => res = truncate_with(raw, cfg.max_lines, cfg.max_line_len)

C9_Combined ==
  Spawned =>
    (/\ proc.stderr = <<>> => raw = proc.stdout
     /\ proc.stdout = <<>> => raw = proc.stderr
     /\ (proc.stdout # <<>> /\ proc.stderr # <<>>)
          => raw = proc.stdout \o <<NL>> \o proc.stderr)

\* C9 witness: a run with text on both streams, and one with stderr only.
C9_Witness ==
  /\ Spawned /\ proc.stdout = <<>> /\ proc.stderr # <<>> /\ raw = proc.stderr

(***************************************************************************)
(* Properties of the subcommand algorithms.                                *)
(***************************************************************************)
\* The text of a grep line before its first colon.
GrepFile(l) == SubSeq(l, 1, FindColon(l) - 1)

\* Line i is the first line of ls with its file prefix.
GrepFirstSeen(ls, i) ==
  /\ HasColon(ls[i])
  /\ \A j \in 1..(i - 1) : HasColon(ls[j]) => GrepFile(ls[j]) # GrepFile(ls[i])

GrepPrefixes(ls) == {GrepFile(ls[i]) : i \in {j \in 1..Len(ls) : HasColon(ls[j])}}

GrepHits(ls, f) ==
  Cardinality({j \in 1..Len(ls) : HasColon(ls[j]) /\ GrepFile(ls[j]) = f})

\* One group header per distinct file prefix, in order of first appearance.
GrepGroupsOf(ls) ==
  Fold(LAMBDA acc, i :
         IF GrepFirstSeen(ls, i)
         THEN Append(acc, <<BOXH, BOXH, " ">> \o GrepFile(ls[i]) \o Chars(" (")
                            \o Digits(GrepHits(ls, GrepFile(ls[i])))
                            \o Chars(" hits)"))
         ELSE acc,
       [i \in 1..Len(ls) |-> i], <<>>)

IsGroupHeader(l) == StartsWith(l, <<BOXH, BOXH, " ">>)

\* C11: the grep compressor makes one group per distinct file prefix, in order
\* of first appearance, with every hit of the file in it, and the M of
\* "N matches in M files" is the number of distinct file prefixes, also when
\* the hits of two files are interleaved.
C11_GrepGrouping ==
  (Compressed /\ comp = "grep" /\ Trim(raw) # <<>> /\ ~res.panic)
  => (/\ EndsWith(Lines(res.text)[1],
                  Chars(" matches in ")
                    \o Digits(Cardinality(GrepPrefixes(Lines(raw))))
                    \o Chars(" files"))
      /\ Filter(Lines(res.text), IsGroupHeader) = GrepGroupsOf(Lines(raw)))

StatusCall == Compressed /\ comp = "git" /\ sub = "status" /\ ~res.panic

\* The name after "On branch " on the first such line, or "(detached)".
BranchName(ls) ==
  IF \E i \in 1..Len(ls) : StartsWith(ls[i], Chars("On branch "))
  THEN LET i == CHOOSE i \in 1..Len(ls) :
                  /\ StartsWith(ls[i], Chars("On branch "))
                  /\ \A j \in 1..(i - 1) : ~StartsWith(ls[j], Chars("On branch "))
       IN SubSeq(ls[i], 11, Len(ls[i]))
  ELSE Chars("(detached)")

\* The "Your branch" lines that do not say "up to date".
AheadBehindNotes(ls) ==
  {i \in 1..Len(ls) : /\ StartsWith(ls[i], Chars("Your branch"))
                      /\ ~Contains(ls[i], Chars("up to date"))}

\* The output has no line for an empty section and, for a section with
\* files, exactly one line: "[label n] " and the files, n of them.
SectionLine(out, label, files) ==
  LET hits == {i \in 1..Len(out) : StartsWith(out[i], <<"[">> \o Chars(label) \o <<" ">>)}
  IN IF files = <<>> THEN hits = {}
     ELSE /\ Cardinality(hits) = 1
          /\ \A i \in hits :
               out[i] = <<"[">> \o Chars(label) \o <<" ">> \o Digits(Len(files))
                          \o Chars("] ") \o Join(files, <<",", " ">>)

\* C12: the summary of git status starts with "[branch] <name>", or with
\* "[branch] (detached)" when no line starts with "On branch"; the note of
\* the "Your branch" line follows on that line exactly when such a line
\* exists and does not contain "up to date"; "[clean]" is printed exactly
\* when the staged, unstaged and untracked lists are all empty, and each
\* non-empty list has exactly one line, whose count is the number of files
\* on it.
C12_StatusSummary ==
  StatusCall =>
    (/\ StartsWith(Lines(res.text)[1],
                   Chars("[branch] ") \o BranchName(Lines(raw)))
     /\ (AheadBehindNotes(Lines(raw)) # {})
          <=> (\E i \in AheadBehindNotes(Lines(raw)) :
                 Lines(res.text)[1] =
                   Chars("[branch] ") \o BranchName(Lines(raw)) \o Chars(" | ")
                     \o Lines(raw)[i])
     /\ (AheadBehindNotes(Lines(raw)) = {})
          => Lines(res.text)[1] = Chars("[branch] ") \o BranchName(Lines(raw))
     /\ (\E i \in 1..Len(Lines(res.text)) : Lines(res.text)[i] = Chars("[clean]"))
          <=> (/\ StatusScan(raw).staged = <<>>
               /\ StatusScan(raw).unstaged = <<>>
               /\ StatusScan(raw).untracked = <<>>)
     /\ SectionLine(Lines(res.text), "staged", StatusScan(raw).staged)
     /\ SectionLine(Lines(res.text), "modified", StatusScan(raw).unstaged)
     /\ SectionLine(Lines(res.text), "untracked", StatusScan(raw).untracked))

\* C12 witness: a branch ahead of its remote with two files staged and one
\* untracked.
C12_Witness ==
  /\ StatusCall
  /\ Lines(res.text)[1] =
       Chars("[branch] main | Your branch is ahead of 'origin/main' by 1 commit.")
  /\ Len(StatusScan(raw).staged) = 2
  /\ Len(Lines(res.text)) = 2
  /\ StartsWith(Lines(res.text)[2], Chars("[staged 2] "))

\* C12 witness of the clean case: a branch up to date with nothing to commit.
C12_WitnessClean ==
  /\ StatusCall
  /\ Lines(res.text) = <<Chars("[branch] dev"), Chars("[clean]")>>
  /\ \E i \in 1..Len(Lines(raw)) : Contains(Lines(raw)[i], Chars("up to date"))

DiffCall == Compressed /\ comp = "git" /\ sub = "diff" /\ ~res.panic

IsDiffHeader(l) == StartsWith(l, Chars("diff --git"))

\* The line after the patch of the file whose header is line h.
NextHeader(ls, h) ==
  LET later == {j \in (h + 1)..Len(ls) : IsDiffHeader(ls[j])}
  IN IF later = {} THEN Len(ls) + 1
     ELSE CHOOSE j \in later : \A k \in later : j <= k

\* The lines of the patch of header h whose first character is c, the
\* file-identity lines (ident) left out.
PatchLines(ls, h, c, ident) ==
  Cardinality({k \in (h + 1)..(NextHeader(ls, h) - 1) :
                 /\ StartsWith(ls[k], <<c>>)
                 /\ ~StartsWith(ls[k], Chars(ident))})

\* The file a header names: what follows its last space, without "b/".
HeaderFile(l) ==
  IF StartsWith(LastPiece(l), Chars("b/"))
  THEN SubSeq(LastPiece(l), 3, Len(LastPiece(l)))
  ELSE LastPiece(l)

\* "<file>: +A -D" for every header, in file order.
ExpectedSummaries(ls) ==
  Fold(LAMBDA acc, h :
         IF IsDiffHeader(ls[h])
         THEN Append(acc, HeaderFile(ls[h]) \o Chars(": +")
                            \o Digits(PatchLines(ls, h, "+", "+++"))
                            \o Chars(" -")
                            \o Digits(PatchLines(ls, h, "-", "---")))
         ELSE acc,
       [h \in 1..Len(ls) |-> h], <<>>)

\* The input has no --stat block: whatever looks like a line of one lies
\* inside the patch of a file, after its header.
NoStatBlock(ls) ==
  \A i \in 1..Len(ls) :
    (/\ Contains(ls[i], <<"|">>)
     /\ Contains(ls[i], <<"+">>) \/ Contains(ls[i], <<"-">>))
    => \E j \in 1..(i - 1) : IsDiffHeader(ls[j])

\* The lines of the output after "[diff]", trimmed.
DiffBody == [i \in 1..(Len(Lines(res.text)) - 1) |-> Trim(Lines(res.text)[i + 1])]

\* C13: for a diff without a stat block the output has, for every
\* "diff --git" header and in file order, exactly one summary
\* "<file>: +A -D", A and D being the numbers of lines of that file's patch
\* that start with "+" and with "-", the "+++" and "---" lines left out.
C13_HunkAccounting ==
  (DiffCall /\ NoStatBlock(Lines(raw))
     /\ \E i \in 1..Len(Lines(raw)) : IsDiffHeader(Lines(raw)[i]))
  => DiffBody = ExpectedSummaries(Lines(raw))

\* A stat-style line with its length counted in characters, and in bytes.
StatStyleChars(l) ==
  /\ Contains(l, <<"|">>)
  /\ Contains(l, <<"+">>) \/ Contains(l, <<"-">>)
  /\ Len(l) < 120

StatStyleBytes(l) ==
  /\ Contains(l, <<"|">>)
  /\ Contains(l, <<"+">>) \/ Contains(l, <<"-">>)
  /\ ByteLen(l) < 120

TrimAll(ls) == [i \in 1..Len(ls) |-> Trim(ls[i])]

\* The body the priority of the three forms gives, stat being the stat-style
\* lines of the input.
DiffForm(ls, stat) ==
  IF stat # <<>> THEN TrimAll(stat)
  ELSE IF \E i \in 1..Len(ls) : IsDiffHeader(ls[i]) THEN ExpectedSummaries(ls)
  ELSE <<Chars("(no changes)")>>

\* C20 as stated: the body of the output of git diff is the stat-style lines
\* (with '|', with '+' or '-', shorter than 120 characters) when there is
\* one, otherwise the per-file summaries when there is a header, otherwise
\* "(no changes)".
C20_ModeAsClaimed ==
  DiffCall =>
    DiffBody = DiffForm(Lines(raw), Filter(Lines(raw), StatStyleChars))

\* C20: the same with the length of a stat-style line counted in bytes.
C20_ModeSelection ==
  DiffCall =>
    /\ Lines(res.text)[1] = Chars("[diff]")
    /\ DiffBody = DiffForm(Lines(raw), Filter(Lines(raw), StatStyleBytes))

\* C20 witness: an input with a stat-style line and a header, whose output
\* is the stat-style line alone.
C20_Witness ==
  /\ DiffCall
  /\ \E i \in 1..Len(Lines(raw)) : IsDiffHeader(Lines(raw)[i])
  /\ \E i \in 1..Len(Lines(raw)) : Lines(raw)[i] = Chars(" x.rs | 2 +-")
  /\ DiffBody = <<Chars("x.rs | 2 +-")>>

DockerCall == Compressed /\ comp = "docker"

\* C14: the docker compressor with the hint "logs" returns dedup_lines(raw);
\* on the empty input it returns the empty string, where "ps" and "images"
\* return their placeholders.
C14_LogsDedup ==
  DockerCall =>
    (/\ sub = "logs" => res = dedup_lines(raw)
     /\ (sub = "logs" /\ raw = <<>>) => res = Ok(<<>>)
     /\ (sub = "ps" /\ raw = <<>>) => res = Ok(Chars("[docker ps] no containers"))
     /\ (sub = "images" /\ raw = <<>>) => res = Ok(Chars("[docker images] none")))

\* C14 witness: container logs with a repeated line and then another line.
C14_Witness ==
  /\ DockerCall /\ sub = "logs"
  /\ raw = Terminated(<<Chars("GET /"), Chars("GET /"), Chars("ready")>>)
  /\ res = Ok(Chars("GET /  (") \o <<TIMES>> \o Chars("2)") \o <<NL>> \o Chars("ready"))

\* C14 witness of the empty input: the logs are empty and so is the result.
C14_WitnessEmpty == DockerCall /\ sub = "logs" /\ raw = <<>> /\ res.text = <<>>

\* runner::exec was called and returned an error.
ExecFailed == fn = "run" /\ pc = "exited" /\ ~proc.spawned /\ proc.error # <<>>

\* The process printed bytes that are not UTF-8.
LossyOutput ==
  Contains(proc.stdout, <<REPLACEMENT>>) \/ Contains(proc.stderr, <<REPLACEMENT>>)

ErrorPrefix == <<"[">> \o Chars(tool) \o Chars("] error: ")

C15_WitnessFail ==
  /\ Exited /\ tool = "run" /\ proc.exit_code = 1 /\ LossyOutput
  /\ output = <<"h", "i", REPLACEMENT>> \o Chars("[run] FAIL (0ms, exit 1)")

CargoCall(h) == Compressed /\ comp = "cargo" /\ sub = h /\ ~res.panic

\* A line that compress_install keeps: a confirmation or the summary.
IsInstallLine(l) == IsInstalled(Trim(l)) \/ IsFinished(Trim(l))

\* C16: cargo install and cargo publish return truncate(raw) when no line of
\* the input matches their patterns, and the labelled summary
\* ("[cargo install] ...", "[cargo publish]") only when a line matched.
C16_InstallPublishFallback ==
  /\ CargoCall("install")
       => /\ ~AnyLine(raw, IsInstallLine) => res = truncate(raw)
          /\ StartsWith(res.text, Chars("[cargo install] "))
               => AnyLine(raw, IsInstallLine)
  /\ CargoCall("publish")
       => /\ ~AnyLine(raw, IsPublishLine) => res = truncate(raw)
          /\ StartsWith(res.text, Chars("[cargo publish]"))
               => AnyLine(raw, IsPublishLine)

ListingCall == Compressed /\ comp = "git" /\ sub \in ListingHints /\ ~res.panic

\* The structural pattern of the lines a listing counts.
ListingPattern(h, l) ==
  CASE h = "tag" -> Trim(l) # <<>>
    [] h = "stash" -> StartsWith(l, Chars("stash@{"))
    [] h = "remote" -> Contains(l, Chars("(fetch)"))
    [] h = "blame" -> TRUE
    [] h = "clean" ->
         StartsWith(l, Chars("Removing")) \/ StartsWith(l, Chars("Would remove"))

ListingCount(h, ls) == Cardinality({i \in 1..Len(ls) : ListingPattern(h, ls[i])})

\* The limit of a listing; the remotes are given the largest the family has.
ListingLimit(h) ==
  CASE h = "tag" -> 30
    [] h = "stash" -> 20
    [] h = "remote" -> 80
    [] h = "blame" -> 80
    [] h = "clean" -> 30

ListingHeader(h, n) ==
  CASE h = "tag" -> Chars("[tags: ") \o Digits(n) \o <<"]">>
    [] h = "stash" -> Chars("[stash: ") \o Digits(n) \o Chars(" entries]")
    [] h = "remote" -> Chars("[remotes: ") \o Digits(n) \o <<"]">>
    [] h = "blame" -> Chars("[blame: ") \o Digits(n) \o Chars(" lines]")
    [] h = "clean" -> Chars("[git clean] ") \o Digits(n) \o Chars(" items")

ListingNone(h) ==
  CASE h = "tag" -> Chars("[tags] none")
    [] h = "stash" -> Chars("[stash] ok")
    [] h = "remote" -> Chars("[remotes] none")
    [] h = "blame" -> Chars("[blame] empty")
    [] h = "clean" -> Chars("[git clean] nothing to clean")

IsMoreTail(l) == StartsWith(l, <<" ", " ", ELLIPSIS>> \o Chars(" +"))

\* The entries and the tails among the lines of the output after the header.
ListedEntries(out) ==
  Cardinality({i \in 2..Len(out) : ~IsMoreTail(out[i])})

Tails(out) == {out[i] : i \in {j \in 2..Len(out) : IsMoreTail(out[j])}}

Min(a, b) == IF a < b THEN a ELSE b

\* C17: each listing of git (tag, stash, remote, blame, clean) reports the
\* number of lines of the input that match its pattern, lists the first of
\* them up to its limit, ends with "+N more", N being the count less the limit,
\* exactly when the count is above the limit, and prints its none or empty
\* marker when the count is zero.
C17_ListingFamily ==
  ListingCall =>
    IF ListingCount(sub, Lines(raw)) = 0
    THEN res.text = ListingNone(sub)
    ELSE /\ Lines(res.text)[1] = ListingHeader(sub, ListingCount(sub, Lines(raw)))
         /\ ListedEntries(Lines(res.text))
              = Min(ListingCount(sub, Lines(raw)), ListingLimit(sub))
         /\ Tails(Lines(res.text)) =
              IF ListingCount(sub, Lines(raw)) > ListingLimit(sub)
              THEN {b \in Tails(Lines(res.text)) :
                      StartsWith(b, <<" ", " ", ELLIPSIS>> \o Chars(" +")
                                      \o Digits(ListingCount(sub, Lines(raw))
                                                  - ListingLimit(sub))
                                      \o Chars(" more"))}
              ELSE {}
         /\ (ListingCount(sub, Lines(raw)) > ListingLimit(sub))
              => Tails(Lines(res.text)) # {}

Loaded == pc \in {"loaded", "exited", "panicked"}

Fields == DOMAIN DefaultCfg

\* The file on disk can be read, is TOML of a PartialConfig, and sets field f.
Sets(file, f) == file.exists /\ file.parses /\ file.partial[f].some

\* The value of field f by precedence: project, then global, then default.
Effective(f) ==
  IF Sets(disk.project, f) THEN disk.project.partial[f].value
  ELSE IF Sets(disk.global, f) THEN disk.global.partial[f].value
  ELSE DefaultCfg[f]

\* C18: after Config::load every field has the value of .cx.toml if that
\* file sets it, otherwise the value of the global file if that file sets it,
\* otherwise the default; merging a partial configuration changes the fields
\* it sets and no other, and a file that is missing or cannot be parsed
\* leaves the configuration as it was.
C18_ConfigPrecedence ==
  Loaded =>
    (/\ \A f \in Fields : cfg[f] = Effective(f)
     /\ \A f \in Fields :
          ~Sets(disk.project, f)
            => cfg[f] = Config_load(load_file(disk.global), NoFile)[f]
     /\ ~(disk.project.exists /\ disk.project.parses)
          => cfg = Config_load(load_file(disk.global), NoFile)
     /\ ~(disk.global.exists /\ disk.global.parses)
          => cfg = Config_load(NoFile, load_file(disk.project)))

\* C18 witness: both files set max_lines and .cx.toml wins, the global file
\* alone sets nothing else, and .cx.toml alone sets ls_max_depth.
C18_Witness ==
  /\ pc = "loaded"
  /\ Sets(disk.global, "max_lines") /\ Sets(disk.project, "max_lines")
  /\ disk.global.partial.max_lines.value = 2
  /\ cfg.max_lines = 1 /\ cfg.ls_max_depth = 2
  /\ cfg.max_line_len = 300 /\ cfg.show_footer

\* C18 witness of a file that cannot be parsed: its max_lines is not taken and
\* the values of the global file stay.
C18_WitnessUnparsable ==
  /\ pc = "loaded"
  /\ disk.project.exists /\ ~disk.project.parses
  /\ disk.project.partial.max_lines = Some(7)
  /\ Sets(disk.global, "max_line_len")
  /\ cfg = [DefaultCfg EXCEPT !.show_footer = FALSE, !.max_line_len = 3]

\* The section a header line of git status opens, or "None".
HeaderSection(l) ==
  IF StartsWith(l, Chars("Changes to be committed")) THEN "Staged"
  ELSE IF StartsWith(l, Chars("Changes not staged")) THEN "Unstaged"
  ELSE IF StartsWith(l, Chars("Untracked files")) THEN "Untracked"
  ELSE "None"

IsHintLine(l) == StartsWith(Trim(l), <<"(">>)
IsBlankLine(l) == Trim(l) = <<>>
IsIndented(l) == StartsWith(l, <<TAB>>) \/ StartsWith(l, <<" ", " ">>)

\* The state of the pass over git status after the first k lines.
StatusAfter(ls, k) ==
  Fold(StatusStep, Take(ls, k),
       [section |-> "None", staged |-> <<>>, unstaged |-> <<>>,
        untracked |-> <<>>])

\* The section of the most recent header before line i, or "None".
SectionBefore(ls, i) ==
  LET hs == {j \in 1..(i - 1) : HeaderSection(ls[j]) # "None"}
  IN IF hs = {} THEN "None"
     ELSE HeaderSection(ls[CHOOSE j \in hs : \A k \in hs : k <= j])

\* The indented lines that are neither hints nor blank, trimmed, of section s.
CollectedUnder(ls, s, blank(_)) ==
  Fold(LAMBDA acc, i :
         IF /\ HeaderSection(ls[i]) = "None"
            /\ IsIndented(ls[i]) /\ ~IsHintLine(ls[i]) /\ ~blank(ls[i])
            /\ SectionBefore(ls, i) = s
         THEN Append(acc, Trim(ls[i]))
         ELSE acc,
       [i \in 1..Len(ls) |-> i], <<>>)

\* The section state moves on header lines only.
SectionMoves(ls) ==
  \A k \in 1..Len(ls) :
    /\ StatusAfter(ls, k).section \in {"None", "Staged", "Unstaged", "Untracked"}
    /\ StatusAfter(ls, k).section # StatusAfter(ls, k - 1).section
         => HeaderSection(ls[k]) # "None"
    /\ HeaderSection(ls[k]) # "None"
         => StatusAfter(ls, k).section = HeaderSection(ls[k])
    /\ (HeaderSection(ls[k]) = "None" /\ (IsHintLine(ls[k]) \/ IsBlankLine(ls[k])))
         => StatusAfter(ls, k).section = StatusAfter(ls, k - 1).section

\* C19: in the pass over git status the section is one of none, staged,
\* unstaged and untracked, changes on a section header only, and is left as
\* it is by hint lines and blank lines; every indented line that is neither
\* a hint nor blank is collected, trimmed, into the list of the most recent
\* header before it, and into no list when no header precedes it.
C19_SectionMachine ==
  StatusCall =>
    (/\ SectionMoves(Lines(raw))
     /\ StatusScan(raw).staged = CollectedUnder(Lines(raw), "Staged", IsBlankLine)
     /\ StatusScan(raw).unstaged = CollectedUnder(Lines(raw), "Unstaged", IsBlankLine)
     /\ StatusScan(raw).untracked
          = CollectedUnder(Lines(raw), "Untracked", IsBlankLine))

(***************************************************************************)
(* SpecReport: one call of a compressor of test, build and merge reports.  *)
(***************************************************************************)
TestVocab ==
  {Chars("running 2 tests"), Chars("test bad ... FAILED"),
   Chars("---- bad stdout ----"), Chars("panicked at x"), <<>>,
   Chars("failures:"), Chars("test result: FAILED. 1 passed")}

\* The output of the failing run of compress/cargo.rs:380.
TestExample ==
  Terminated(<<Chars("running 2 tests"), Chars("test ok_test ... ok"),
               Chars("test bad_test ... FAILED"), <<>>, Chars("failures:"),
               <<>>, Chars("---- bad_test stdout ----"),
               Chars("thread 'bad_test' panicked at 'assertion failed: false'"),
               <<>>, Chars("failures:"), Chars("    bad_test"), <<>>,
               Chars("test result: FAILED. 1 passed; 1 failed; 0 ignored")>>)

TestOutputs ==
  OutputsOver(TestVocab)
    \cup {TestExample,
          Terminated(<<Chars("some unrelated output"),
                       Chars("no test keywords here")>>)}

BuildVocab ==
  {Chars("error[E0308]: mismatched types"), Chars("warning: unused import: a"),
   Chars("warning: dead code"), Chars("   Compiling a v1"),
   Chars("warning: unused import: Finished"), Chars(" --> src/main.rs:1:1")}

BuildOutputs ==
  OutputsOver(BuildVocab)
    \cup {Rep(Chars("warning: dead code") \o <<NL>>, 11),
          Rep(Chars("error: x") \o <<NL>>, 12)}

PytestVocab ==
  {Chars("=== FAILURES ==="), Chars("___ test_div ___"), Chars("E assert 1 == 2"),
   <<>>, Chars("=== 1 failed, 2 passed in 0.05s ==="),
   Chars("=== short test summary info ==="), Chars("FAILED t.py::test_div")}

PytestOutputs ==
  OutputsOver(PytestVocab)
    \cup {Chars("___ test_div ___") \o <<NL>>
            \o Rep(Chars("E assert 1 == 2") \o <<NL>>, 22)}

MergeVocab ==
  {Chars("Auto-merging src/main.rs"),
   Chars("CONFLICT (content): Merge conflict in src/main.rs"),
   Chars("  fix conflicts and then commit the result."),
   Chars("Merge made by the 'ort' strategy."), <<" ">>, Chars("Applying: patch")}

MergeOutputs ==
  OutputsOver(MergeVocab)
    \cup {Terminated([i \in 1..6 |-> Chars("file") \o Digits(i)])}

ReportCalls ==
  {[c |-> "cargo", h |-> h] : h \in {"test", "nextest", "build", "check"}}
    \cup {[c |-> "python", h |-> h] : h \in {"pytest", "test"}}
    \cup {[c |-> "git", h |-> h] : h \in {"merge", "rebase", "cherry-pick"}}

ReportsOf(call) ==
  CASE call.c = "cargo" /\ call.h \in {"test", "nextest"} -> TestOutputs
    [] call.c = "cargo" -> BuildOutputs
    [] call.c = "python" -> PytestOutputs
    [] call.c = "git" -> MergeOutputs

InitReport ==
  /\ pc = "ready"
  /\ fn = "none"
  /\ \E call \in ReportCalls :
       /\ comp = call.c
       /\ sub = call.h
       /\ raw \in ReportsOf(call)
  /\ max_lines = MAX_LINES
  /\ max_line_len = MAX_LINE_LEN
  /\ res = Ok(<<>>)
  /\ cfg = DefaultCfg
  /\ disk = NoFiles
  /\ tool = "none"
  /\ argv = NoArgv
  /\ proc = NoProc
  /\ output = <<>>
  /\ cli = <<>>
  /\ root = NoRoot

NextReport == CallSubcommand

SpecReport == InitReport /\ [][NextReport]_vars

(***************************************************************************)
(* cargo test                                                              *)
(***************************************************************************)
TestCall == Compressed /\ comp = "cargo" /\ sub \in {"test", "nextest"}

\* Line i lies in a failure block: an opener at or before it has met no
\* blank line yet.
InTestBlock(ls, i) ==
  \E j \in 1..i :
    /\ IsTestOpener(ls[j])
    /\ \A k \in j..(i - 1) : ls[k] # <<>>

\* Line i is emitted: it lies in a block, or it is of the summary class and
\* no equal line came before it (an equal line before it was emitted, being
\* of the summary class too).
TestEmitted(ls, i) ==
  \/ InTestBlock(ls, i)
  \/ (IsTestSummary(ls[i]) /\ \A k \in 1..(i - 1) : ls[k] # ls[i])

TestExpected(ls) ==
  [n \in 1..Len(SelectSeq([i \in 1..Len(ls) |-> i],
                          LAMBDA i : TestEmitted(ls, i))) |->
     ls[SelectSeq([i \in 1..Len(ls) |-> i], LAMBDA i : TestEmitted(ls, i))[n]]]

TestReport(text, expected) ==
  IF expected = <<>>
  THEN res = truncate(text)
  ELSE res = Ok(Chars("[cargo test]") \o <<NL>> \o Join(expected, <<NL>>))

\* C21: in the pass over the output of cargo test a line '---- name ----'
\* opens a failure block and the next blank line closes it; the lines from
\* the opener through the closing blank line are emitted as they are and in
\* order; outside a block only the lines of the summary class are emitted,
\* and not when an equal line was emitted before; when nothing is emitted the
\* result is truncate(raw).
C21_TestFailureBlocks ==
  TestCall => TestReport(raw, TestExpected(Lines(raw)))

\* A block was opened and closed, a summary line after it repeats a line
\* that the block had emitted, and a line outside the block was dropped.
C21_Witness ==
  /\ TestCall
  /\ \E i, j, k \in 1..Len(Lines(raw)) :
       /\ i < j /\ j < k
       /\ IsTestOpener(Lines(raw)[i])
       /\ Lines(raw)[j] = <<>> /\ InTestBlock(Lines(raw), j)
       /\ ~InTestBlock(Lines(raw), k) /\ IsTestSummary(Lines(raw)[k])
       /\ ~TestEmitted(Lines(raw), k)
  /\ Len(TestExpected(Lines(raw))) < Len(Lines(raw))
  /\ ~res.panic

(***************************************************************************)
(* cargo build, cargo check                                                *)
(***************************************************************************)
BuildCall == Compressed /\ comp = "cargo" /\ sub \in {"build", "check"}

IsUnusedWarning(line) == StartsWith(line, Chars("warning: unused"))

IsErrorLine(line) == StartsWith(line, Chars("error"))

IsKeptWarning(line) ==
  StartsWith(line, Chars("warning")) /\ ~IsUnusedWarning(line)

ShowsUnused(line) == IsUnusedWarning(Trim(line))

\* The listing of the warnings: the count, the first ten, the rest counted.
WarningBlock(ws) ==
  IF ws = <<>> THEN <<>>
  ELSE Chars("[warnings: ") \o Digits(Len(ws)) \o <<"]", NL>>
         \o Indented(Take(ws, 10))
         \o (IF Len(ws) > 10
             THEN <<" ", " ", ELLIPSIS>> \o Chars(" +") \o Digits(Len(ws) - 10)
                    \o Chars(" more") \o <<NL>>
             ELSE <<>>)

ErrorBlock(es) ==
  IF es = <<>> THEN <<>>
  ELSE Chars("[errors: ") \o Digits(Len(es)) \o <<"]", NL>> \o Indented(es)

\* C22: the output of cargo build and cargo check holds no line of the
\* class 'warning: unused', such lines are not counted in '[warnings: N]',
\* every error line is listed, and at most 10 warning lines are listed with
\* a '+N more' marker for the rest.
C22_UnusedWarningsExcluded ==
  BuildCall =>
    (/\ Filter(Lines(res.text), ShowsUnused) = <<>>
     /\ (Filter(Lines(raw), IsErrorLine) # <<>>
           \/ Filter(Lines(raw), IsKeptWarning) # <<>>)
          => EndsWith(res.text,
                      ErrorBlock(Filter(Lines(raw), IsErrorLine))
                        \o WarningBlock(Filter(Lines(raw), IsKeptWarning))))

\* The listing half alone: errors all listed, warnings capped at ten, the
\* unused class left out of the count.
C22_ListingHolds ==
  BuildCall =>
    ((Filter(Lines(raw), IsErrorLine) # <<>>
        \/ Filter(Lines(raw), IsKeptWarning) # <<>>)
       => EndsWith(res.text,
                   ErrorBlock(Filter(Lines(raw), IsErrorLine))
                     \o WarningBlock(Filter(Lines(raw), IsKeptWarning))))

(***************************************************************************)
(* pytest                                                                  *)
(***************************************************************************)
PytestCall == Compressed /\ comp = "python" /\ sub \in {"pytest", "test"}

\* The pass over the output of pytest with a block that every line starting
\* with '=' terminates, the summary lines included.
PytestAsClaimed(st, line) ==
  IF IsPytestSummary(line)
  THEN [st EXCEPT !.out = Append(@, line), !.in_failure = FALSE]
  ELSE PytestStep(st, line)

\* C23: in the pass over the output of pytest the summary lines are always
\* emitted; after each failure header at most 20 detail lines are emitted; a
\* block is terminated by every line starting with '=', or by a blank line
\* after at least 2 lines of failure content, and after the termination no
\* detail line is emitted until the next failure header.
C23_PytestBlocks ==
  PytestCall =>
    res = PytestOut(raw, Fold(PytestAsClaimed, Lines(raw),
                              [out |-> <<>>, in_failure |-> FALSE,
                               failure_lines |-> 0]).out)

\* The part that holds: the summary lines of the input are the summary lines
\* of the output, and a failure of 22 detail lines shows 20 of them.
C23_SummariesKept ==
  PytestCall =>
    (/\ Filter(Lines(res.text), IsPytestSummary)
          = Filter(Lines(raw), IsPytestSummary)
     /\ Len(Filter(Lines(raw), IsFailureHeader)) = 1 /\ Len(Lines(raw)) = 23
          => Len(Lines(res.text)) = 22)

(***************************************************************************)
(* git merge, git rebase, git cherry-pick                                  *)
(***************************************************************************)
MergeCall ==
  Compressed /\ comp = "git" /\ sub \in {"merge", "rebase", "cherry-pick"}

\* The lines of the output after the first.
ListedLines(text) == Skip(Lines(text), 1)

\* The numeral that ends the first line of a report of conflicts.
ConflictsHeader(n) ==
  GitLabel(sub) \o Chars(" CONFLICTS (") \o Digits(n) \o <<")">>

IsMergeNoise(l) ==
  \/ StartsWith(Trim(l), Chars("Auto-merging"))
  \/ StartsWith(Trim(l), Chars("Applying:"))

IsRemaining(l) == Trim(l) # <<>> /\ ~IsMergeNoise(l)

\* C24: for merge, rebase and cherry-pick the conflicts come first: when a
\* line of the input mentions a conflict the output is 'CONFLICTS (n)'
\* followed by every such line, n being their number, without a cap;
\* otherwise the auto-merge and apply lines are dropped and the first 5 of
\* the remaining non-empty lines are joined into one line, or 'ok' is emitted
\* when none remains.
C24_ConflictsFirst ==
  MergeCall =>
    /\ ~res.panic
    /\ IF \E i \in 1..Len(Lines(raw)) : IsConflict(Lines(raw)[i])
       THEN /\ Lines(res.text)[1]
                 = ConflictsHeader(Len(ListedLines(res.text)))
            /\ ListedLines(res.text)
                 = [i \in 1..Len(Filter(Lines(raw), IsConflict)) |->
                      <<" ", " ">> \o Trim(Filter(Lines(raw), IsConflict)[i])]
       ELSE IF Filter(Lines(raw), IsRemaining) = <<>>
       THEN res.text = GitLabel(sub) \o Chars(" ok")
       ELSE /\ res.text
                 = GitLabel(sub) \o <<" ">>
                     \o Join(Take(Filter(Lines(raw), IsRemaining), 5),
                             Chars(" | "))
            /\ Len(Lines(res.text)) = 1

\* Three lines mention a conflict and all three are listed.
C24_Witness ==
  /\ MergeCall
  /\ Len(Filter(Lines(raw), IsConflict)) = 3
  /\ Len(Lines(res.text)) = 4

\* Six lines remain and five are joined.
C24_WitnessSummary ==
  /\ MergeCall
  /\ Len(Filter(Lines(raw), IsRemaining)) = 6
  /\ Len(Lines(res.text)) = 1

(***************************************************************************)
(* docker ps, docker images                                                *)
(***************************************************************************)
TableCall ==
  Compressed /\ comp = "docker" /\ sub \in {"ps", "images"} /\ raw # <<>>

TableLabel == IF sub = "ps" THEN "containers" ELSE "images"

\* The rows of the table that the output shows: what follows the count and
\* the header, less the overflow line when the table has more than 30 rows.
RowsShown(out, n) ==
  IF n > 31 THEN SubSeq(out, 3, Len(out) - 1) ELSE Skip(out, 2)

OverflowLine(k) ==
  <<" ", " ", ELLIPSIS>> \o Chars(" +") \o Digits(k) \o Chars(" more")

IsOverflowLine(l) ==
  StartsWith(l, <<" ", " ", ELLIPSIS>> \o Chars(" +"))
    /\ EndsWith(l, Chars(" more"))

TableShape(lines, out) ==
  /\ out[1] = <<"[">> \o Chars(TableLabel) \o Chars(": ")
                \o Digits(Len(lines) - 1) \o <<"]">>
  /\ out[2] = lines[1]
  /\ RowsShown(out, Len(lines))
       = SubSeq(lines, 2, 1 + Min(Len(lines) - 1, 30))
  /\ IF Len(lines) > 31
     THEN out[Len(out)] = OverflowLine(Len(lines) - 31)
     ELSE Len(out) = Len(lines) + 1
  /\ Len(RowsShown(out, Len(lines)))
       + (IF Len(lines) > 31 THEN Len(lines) - 31 ELSE 0)
       = Len(lines) - 1

\* C25: for a non-empty output of docker ps or docker images of n lines the
\* reported total is n - 1, the first line is kept as the header, the rows
\* shown are the first min(n - 1, 30) rows in order, and the line
\* '+(n - 31) more' is there if and only if n > 31, so that the rows shown
\* and the number of the overflow line add up to the reported total.
C25_TableCounts ==
  TableCall => (~res.panic /\ TableShape(Lines(raw), Lines(res.text)))

\* A table of 31 rows: 30 are shown and the overflow line says 1.
C25_Witness ==
  /\ TableCall
  /\ Len(Lines(raw)) = 32
  /\ Len(Lines(res.text)) = 33
  /\ IsOverflowLine(Lines(res.text)[33])

\* A table of exactly 30 rows is shown whole.
C25_WitnessWhole ==
  /\ TableCall
  /\ Len(Lines(raw)) = 31
  /\ Len(Lines(res.text)) = 32
  /\ ~IsOverflowLine(Lines(res.text)[32])

(***************************************************************************)
(* grep: the counts                                                        *)
(***************************************************************************)
GrepCall == Compressed /\ comp = "grep" /\ Trim(raw) # <<>> /\ ~res.panic

GrepRest(l) == SubSeq(l, FindColon(l) + 1, Len(l))

\* Line i opens a group: it holds a colon, and the last line with a colon
\* before it, if any, is of another file.
OpensGroup(ls, i) ==
  /\ HasColon(ls[i])
  /\ \A j \in 1..(i - 1) :
       (HasColon(ls[j]) /\ \A k \in (j + 1)..(i - 1) : ~HasColon(ls[k]))
         => GrepFile(ls[j]) # GrepFile(ls[i])

\* The lines of the group that line i opens: the lines with a colon from i
\* on, up to the first of another file.
GroupOf(ls, i) ==
  SelectSeq([j \in 1..(Len(ls) - i + 1) |-> i + j - 1],
            LAMBDA j : /\ HasColon(ls[j])
                       /\ \A k \in i..j :
                            HasColon(ls[k]) => GrepFile(ls[k]) = GrepFile(ls[i]))

GroupOpeners(ls) ==
  SelectSeq([i \in 1..Len(ls) |-> i], LAMBDA i : OpensGroup(ls, i))

\* The text shown of a match: the match, or its longest prefix of at most
\* 200 bytes.
Shown(m) ==
  IF ByteLen(m) <= 200 THEN m
  ELSE Take(m, CHOOSE k \in 0..200 :
                 /\ ByteLen(Take(m, k)) <= 200
                 /\ ByteLen(Take(m, k + 1)) > 200)

GroupText(ls, hits) ==
  <<NL, BOXH, BOXH, " ">> \o GrepFile(ls[hits[1]]) \o Chars(" (")
    \o Digits(Len(hits)) \o Chars(" hits)") \o <<NL>>
    \o Concat([n \in 1..Min(Len(hits), 10) |->
                 <<" ", " ">> \o Shown(GrepRest(ls[hits[n]])) \o <<NL>>])
    \o (IF Len(hits) > 10
        THEN OverflowLine(Len(hits) - 10) \o <<NL>>
        ELSE <<>>)

GrepReport(ls, openers) ==
  Chars("[grep] ") \o Digits(Len(ls)) \o Chars(" matches in ")
    \o Digits(Len(openers)) \o Chars(" files") \o <<NL>>
    \o Concat([g \in 1..Len(openers) |-> GroupText(ls, GroupOf(ls, openers[g]))])

\* The hits of the groups, added up.
HitsOfGroups(ls, openers) ==
  Fold(LAMBDA acc, i : acc + Len(GroupOf(ls, i)), openers, 0)

IsShownMatch(l) == StartsWith(l, <<" ", " ">>)

C26_WitnessCut ==
  /\ GrepCall
  /\ \E i \in 1..Len(Lines(raw)) : ByteLen(GrepRest(Lines(raw)[i])) > 200
  /\ \E i \in 1..Len(Lines(res.text)) :
       IsShownMatch(Lines(res.text)[i]) /\ Len(Lines(res.text)[i]) > 200

(***************************************************************************)
(* SpecGit: cx git on the command lines of git clean.                      *)
(***************************************************************************)
CleanOptions == {"-f", "--force", "-d", "-fd", "x"}

\* git clean with up to two arguments, git clean behind a global option of
\* git, and three other command lines.
GitCommandLines ==
  {<<"clean">> \o r : r \in SeqsOfLen(CleanOptions, 0) \cup SeqsOfLen(CleanOptions, 1)
                         \cup SeqsOfLen(CleanOptions, 2)}
    \cup {<<"-C", "x", "clean">>, <<"-C", "x", "clean", "-f">>,
          <<"--no-pager", "clean", "-d">>, <<"fetch">>, <<"status">>, <<>>}

InitGit ==
  /\ pc = "start"
  /\ fn = "none"
  /\ raw = <<>>
  /\ sub = NoHint
  /\ comp = "none"
  /\ max_lines = MAX_LINES
  /\ max_line_len = MAX_LINE_LEN
  /\ res = Ok(<<>>)
  /\ cfg = DefaultCfg
  /\ disk = NoFiles
  /\ tool = "none"
  /\ argv = NoArgv
  /\ proc = NoProc
  /\ output = <<>>
  /\ cli = <<>>
  /\ root = NoRoot

RunGitClean == RunToolOn("git", GitCommandLines)

NextGit == LoadConfig \/ RunGitClean

SpecGit == InitGit /\ [][NextGit]_vars

(***************************************************************************)
(* git clean                                                               *)
(***************************************************************************)
\* cx git ran and git was started.
GitRan ==
  pc \in {"exited", "panicked"} /\ fn = "run" /\ tool = "git" /\ proc.spawned

\* The command line of git: the options of git itself, of which -C and -c
\* take a value, then the subcommand and its arguments.
RECURSIVE GitCommandAt(_, _)
GitCommandAt(args, i) ==
  IF i > Len(args) THEN 0
  ELSE IF args[i] \in {"-C", "-c"} THEN GitCommandAt(args, i + 2)
  ELSE IF ArgStartsWith(args[i], "-") THEN GitCommandAt(args, i + 1)
  ELSE i

\* git is asked to clean.
RunsClean(args) ==
  GitCommandAt(args, 1) # 0 /\ args[GitCommandAt(args, 1)] = "clean"

Forced(args) == HasArg(args, {"-f", "--force"})

\* The arguments with -n put after the subcommand.
WithDryRun(args) ==
  SubSeq(args, 1, GitCommandAt(args, 1)) \o <<"-n">>
    \o SubSeq(args, GitCommandAt(args, 1) + 1, Len(args))

\* C27: for every argument list of the user, cx git runs git clean with the
\* dry-run flag -n added unless the arguments of the user hold -f or
\* --force, so that no clean that can delete files runs without a force
\* flag of the user; the arguments of the user are all passed on, in their
\* order.
C27_CleanDryRun ==
  (GitRan /\ RunsClean(cli)) =>
    /\ argv.program = "git"
    /\ argv.args = IF Forced(cli) THEN cli ELSE WithDryRun(cli)

\* The same for the command lines that begin with the subcommand.
C27_CleanFirst ==
  (GitRan /\ cli # <<>> /\ cli[1] = "clean") =>
    /\ argv.program = "git"
    /\ argv.args = IF Forced(cli) THEN cli ELSE WithDryRun(cli)

\* git clean -d x was run as git clean -n -d x.
C27_WitnessFirst ==
  /\ GitRan
  /\ cli = <<"clean", "-d", "x">>
  /\ argv.args = <<"clean", "-n", "-d", "x">>

(***************************************************************************)
(* The footer of a run.                                                    *)
(***************************************************************************)
\* C28: the timing footer is appended to the output of a command if and
\* only if the loaded configuration has show_footer = true; with
\* show_footer = false the output is the compressed text alone.
C28_FooterSwitch ==
  Exited =>
    /\ cfg.show_footer <=> EndsWith(output, footer(tool, proc))
    /\ ~cfg.show_footer => output = res.text

\* What the runs do: the footer follows the compressed text whatever the
\* configuration says.
C28_FooterAlways ==
  Exited => output = res.text \o footer(tool, proc)

\* C29: in every run whose process was spawned the footer begins at the
\* start of a line: a line break separates the compressed text from the
\* footer whatever the compressor returned, and the last line of the output
\* is the footer and nothing else.
C29_FooterOwnLine ==
  Exited => Lines(output)[Len(Lines(output))] = footer(tool, proc)

\* The footer is the last line when the compressed text is empty or ends
\* with a line break, and only then.
C29_FooterGlued ==
  Exited =>
    ((res.text = <<>> \/ res.text[Len(res.text)] = NL)
       <=> Lines(output)[Len(Lines(output))] = footer(tool, proc))

(***************************************************************************)
(* SpecLs: cx ls on a directory tree.                                      *)
(***************************************************************************)
MaxEntries == 3

Names == {NameOrder[i] : i \in 1..Len(NameOrder)}

\* The directories of files, empty directories and unreadable directories,
\* and the directories of such directories.
Leaves == UNION {[S -> {FileNode, DeniedDir, DirNode(<<>>)}] : S \in SUBSET Names}

Trees ==
  UNION {[S -> {FileNode, DeniedDir} \cup {DirNode(f) : f \in Leaves}] :
           S \in SUBSET Names}

Roots == {NoRoot, FileNode, DeniedDir} \cup {DirNode(f) : f \in Trees}

\* The .cx.toml files that set the ls fields.
LsFiles ==
  {Parsed([NoPartial EXCEPT !.ls_max_entries = Some(n), !.ls_max_depth = d,
                            !.ls_skip = s]) :
     n \in 1..MaxEntries, d \in {None, Some(0)}, s \in {None, Some(<<"b">>)}}

InitLs ==
  /\ pc = "start"
  /\ fn = "none"
  /\ raw = <<>>
  /\ sub = NoHint
  /\ comp = "none"
  /\ max_lines = MAX_LINES
  /\ max_line_len = MAX_LINE_LEN
  /\ res = Ok(<<>>)
  /\ cfg = DefaultCfg
  /\ disk \in [global : {Missing}, project : LsFiles]
  /\ tool = "none"
  /\ argv = NoArgv
  /\ proc = NoProc
  /\ output = <<>>
  /\ cli = <<>>
  /\ root \in Roots

\* main with Commands::Ls: FsTool::new(path, &cfg) and its run.
RunLs ==
  /\ pc = "loaded"
  /\ cli' = <<".">>
  /\ output' = FsTool_run(".", root, cfg)
  /\ tool' = "ls"
  /\ fn' = "run"
  /\ pc' = "exited"
  /\ UNCHANGED <<raw, sub, comp, max_lines, max_line_len, res, cfg, argv, proc,
                 disk, root>>

NextLs == LoadConfig \/ RunLs

SpecLs == InitLs /\ [][NextLs]_vars

(***************************************************************************)
(* ls                                                                      *)
(***************************************************************************)
LsRan == pc = "exited" /\ tool = "ls" /\ root.kind = "dir"

IsEntryLine(l) == \E i \in 1..Len(l) : l[i] \in {BOXUR, BOXVR}

IsLsTrailer(l) == StartsWith(l, <<ELLIPSIS, " ">>)

\* The number of directories between the entry of a line and the root.
EntryDepth(l) ==
  ((CHOOSE i \in 1..Len(l) :
      l[i] \in {BOXUR, BOXVR} /\ \A j \in 1..(i - 1) : l[j] \notin {BOXUR, BOXVR})
     - 1) \div 4

EntryLines(text) == Filter(Lines(text), IsEntryLine)

\* The entries that the walk lists when nothing stops it but the depth.
AllEntries(node, c) ==
  FsTool_walk(node, [c EXCEPT !.ls_max_entries = 1000]).out

LsBound(shown, all, count, c) ==
  /\ Len(shown) <= c.ls_max_entries
  /\ count <= c.ls_max_entries
  /\ \A i \in 1..Len(shown) : EntryDepth(shown[i]) <= c.ls_max_depth
  /\ AnyLine(output, IsLsTrailer)
       => (/\ Len(shown) < Len(all)
           /\ Len(shown) = c.ls_max_entries
           /\ Lines(output)[Len(Lines(output))]
                = LsTrailer(count, c.ls_max_entries))

\* C30: for every directory tree the walk of cx ls emits at most
\* ls_max_entries entry lines, the counter never exceeding ls_max_entries,
\* lists no entry nested deeper than ls_max_depth, and appends the trailer
\* '... N entries total, showing first <ls_max_entries>' only when entries
\* were left out, the number of lines shown being the ls_max_entries it
\* states.
C30_LsBound ==
  LsRan => LsBound(EntryLines(output), AllEntries(root, cfg),
                   FsTool_walk(root, cfg).count, cfg)

\* What the walk does: it stops after ls_max_entries + 1 lines, and the
\* trailer is there exactly when it has emitted that many.
LsOffByOne(shown, all, count, c) ==
  /\ count = Len(shown)
  /\ Len(shown) = Min(Len(all), c.ls_max_entries + 1)
  /\ shown = Take(all, Len(shown))
  /\ \A i \in 1..Len(shown) : EntryDepth(shown[i]) <= c.ls_max_depth
  /\ AnyLine(output, IsLsTrailer) <=> Len(shown) = c.ls_max_entries + 1

C30_LsOffByOne ==
  LsRan => LsOffByOne(EntryLines(output), AllEntries(root, cfg),
                      FsTool_walk(root, cfg).count, cfg)
====
